---------------------------- MODULE Spec2Model ----------------------------
(***************************************************************************)
(* The GraphDef -> MLIR importer (ImporterBase, GraphDefImporter and the   *)
(* entry point ConvertGraphToMlir) as a state machine.                     *)
(*                                                                         *)
(* The importer is single threaded and recursive: converting a node may    *)
(* convert a library function, whose body is converted by a child importer *)
(* that shares the module and the name-translation table.  The recursion   *)
(* is kept as an explicit stack of activations (`stack'); every activation *)
(* holds the fields of its ImporterBase object and its position in the     *)
(* code.  A call pushes an activation, a return pops it and leaves the     *)
(* returned Status in `ret'.                                               *)
(***************************************************************************)
EXTENDS Integers, Sequences, FiniteSets, TLC

(***************************************************************************)
(* Bounds of the explored inputs.                                          *)
(***************************************************************************)
\* data inputs of the Merge node "m" of the main graph
MaxMergeIn == 2
\* control inputs of the Merge node "m" of the main graph
MaxCtlIn == 2
\* function references in the body of a library function
MaxBodyRefs == 1
\* rank of the shapes the shape refiner hands out
MaxRank == 1
\* calls made to the offload executor
MaxCalls == 5
\* kernels a KernelStack has room for
StackKernels == 2

(***************************************************************************)
(* Names.  TLA+ strings are not ordered: the lexicographic order of the    *)
(* names the code compares (node names in GetReversePostOrder, attribute   *)
(* names in ConvertNode) is their position in these lists.                 *)
(***************************************************************************)
NameOrder == <<"_SINK", "_SOURCE", "a", "b", "c", "m", "n", "p", "q", "r", "x">>

Rank(s) == CHOOSE i \in 1..Len(NameOrder) : NameOrder[i] = s

NameLess(s, t) == Rank(s) < Rank(t)

\* Graph::kControlSlot
kControlSlot == -1

\* Status codes
OK == "OK"
FailedPrecondition == "FailedPrecondition"
Unimplemented == "Unimplemented"
Unknown == "Unknown"
InvalidArgument == "InvalidArgument"
\* the process died: a failed debug assertion or a null dereference
Aborted == "Aborted"
\* no call has returned yet
NoStatus == "none"

(***************************************************************************)
(* Sequences and orders.                                                   *)
(***************************************************************************)
\* F of the value of e, with e evaluated once
Once(e, F(_)) == CHOOSE r \in {F(x) : x \in {e}} : TRUE

Range(s) == Once(s, LAMBDA t : {t[i] : i \in 1..Len(t)})

\* every order in which the elements of the finite set S can be iterated
RECURSIVE Orders(_)
Orders(S) ==
    IF S = {} THEN {<<>>} ELSE UNION {{<<x>> \o s : s \in Orders(S \ {x})} : x \in S}

\* std::stable_sort / absl::c_stable_sort under the strict weak order Less:
\* element i goes behind every element that is smaller and behind every
\* earlier element that is not greater
StableSort(seq, Less(_, _)) ==
    Once(seq, LAMBDA s :
        LET n == Len(s)
            pos(i) == 1 + Cardinality({j \in 1..n : Less(s[j], s[i])
                                                     \/ (j < i /\ ~Less(s[i], s[j]))})
        IN [k \in 1..n |-> s[CHOOSE i \in 1..n : pos(i) = k]])

Reverse(s) == Once(s, LAMBDA t : [i \in 1..Len(t) |-> t[Len(t) + 1 - i]])

(***************************************************************************)
(* Graphs.  A graph is a record                                            *)
(*   nodes : the names of its nodes (names are unique in a graph; the      *)
(*           pseudo-nodes _SOURCE and _SINK are implicit),                 *)
(*   op    : node -> type_string,                                          *)
(*   in    : node -> the set of its in-edges (an EdgeSet has no order),    *)
(*   attrs : node -> the set of its attributes (a protobuf Map),           *)
(*   rooted: the nodes that have the control edge from _SOURCE.            *)
(* An edge is [src, src_output, dst_input]; both slots of a control edge   *)
(* are kControlSlot.                                                       *)
(***************************************************************************)
DataEdge(src, out, inp) == [src |-> src, src_output |-> out, dst_input |-> inp]

ControlEdge(src) == [src |-> src, src_output |-> kControlSlot, dst_input |-> kControlSlot]

IsControlEdge(e) == e.src_output = kControlSlot

IsOp(n) == n \notin {"_SOURCE", "_SINK"}

IsSource(n) == n = "_SOURCE"

IsMerge(g, n) == IsOp(n) /\ g.op[n] = "Merge"

IsNextIteration(g, n) == IsOp(n) /\ g.op[n] = "NextIteration"

IsArg(g, n) == IsOp(n) /\ g.op[n] = "_Arg"

IsRetval(g, n) == IsOp(n) /\ g.op[n] \in {"_Retval", "_DeviceRetval"}

\* Node::num_outputs, by operation kind: Merge has (output, value_index)
num_outputs(g, n) ==
    CASE g.op[n] = "Merge" -> 2
      [] g.op[n] \in {"_Retval", "_DeviceRetval"} -> 0
      [] OTHER -> 1

EmptyGraph == [nodes |-> {}, op |-> <<>>, in |-> <<>>, attrs |-> <<>>, rooted |-> {}]

\* Node::in_edges() of a real node
in_edges(g, n) == g.in[n] \cup (IF n \in g.rooted THEN {ControlEdge("_SOURCE")} ELSE {})

\* FixupSourceAndSinkEdges: a control edge from _SOURCE to every node without
\* in-edges (and one to _SINK from every node without out-edges)
FixupSourceAndSinkEdges(g) == [g EXCEPT !.rooted = @ \cup {n \in g.nodes : g.in[n] = {}}]

HasOutEdge(g, n) == \E d \in g.nodes : \E e \in g.in[d] : e.src = n

\* the nodes at the far end of n's out-edges, pseudo-nodes included
OutNodes(g, n) ==
    CASE n = "_SOURCE" -> g.rooted \cup {"_SINK"}
      [] n = "_SINK" -> {}
      [] OTHER -> {d \in g.nodes : \E e \in g.in[d] : e.src = n}
                  \cup (IF HasOutEdge(g, n) THEN {} ELSE {"_SINK"})

\* the elements of S as the sequence std::sort by name produces
SortByName(names) ==
    Once(names, LAMBDA S :
        [k \in 1..Cardinality(S) |->
            CHOOSE x \in S : Cardinality({y \in S : NameLess(y, x)}) = k - 1])

RECURSIVE Visit(_, _, _)
RECURSIVE VisitAll(_, _, _)
\* DFSFrom: the out-edges' nodes are pushed in name order, so they are popped
\* and visited in reverse name order; st = [visited, post]
Visit(g, n, st) ==
    Once(st, LAMBDA s :
        IF n \in s.visited THEN s
        ELSE LET entered == [s EXCEPT !.visited = @ \cup {n}]
                 left == VisitAll(g, Reverse(SortByName(OutNodes(g, n))), entered)
             IN [left EXCEPT !.post = Append(@, n)])

VisitAll(g, kids, st) ==
    Once(kids, LAMBDA ks :
        IF ks = <<>> THEN st ELSE VisitAll(g, Tail(ks), Visit(g, Head(ks), st)))

\* GetReversePostOrder(*graph_, &ordered_nodes_, name comparator)
GetReversePostOrder(g) ==
    Once(g, LAMBDA graph :
        Reverse(Visit(graph, "_SOURCE", [visited |-> {}, post |-> <<>>]).post))

\* Graph::RemoveNode: the node and every edge it is an end of
RemoveNodes(g, dead) ==
    LET keep == g.nodes \ dead
    IN [nodes |-> keep,
        op |-> [n \in keep |-> g.op[n]],
        in |-> [n \in keep |-> {e \in g.in[n] : e.src \notin dead}],
        attrs |-> [n \in keep |-> g.attrs[n]],
        rooted |-> g.rooted \cap keep]

(***************************************************************************)
(* Attributes.  A source attribute (AttrValue) is a record                 *)
(*   name, kind ("i", "list", "func" or "placeholder"),                    *)
(*   func   : the function a kFunc value names,                            *)
(*   nested : the kFunc value's own attributes, as <<key, kind>> pairs,    *)
(*   items  : the function items of a list value, as [name, attr_size].    *)
(* An IR attribute is [name, k, f, items]; name is <<base, key>>.          *)
(***************************************************************************)
AttrOrder == <<"N", "T", "body", "cond", "f">>

AttrRank(s) == CHOOSE i \in 1..Len(AttrOrder) : AttrOrder[i] = s

IntAttr(name) == [name |-> name, kind |-> "i", func |-> "", nested |-> <<>>, items |-> <<>>]

FuncAttr(name, f, nested) ==
    [name |-> name, kind |-> "func", func |-> f, nested |-> nested, items |-> <<>>]

ListAttr(name, items) ==
    [name |-> name, kind |-> "list", func |-> "", nested |-> <<>>, items |-> items]

IRAttr(name, k, f, items) == [name |-> name, k |-> k, f |-> f, items |-> items]

\* an MLIR function name chosen by UniqueFunctionName, and plain operation names
MlirName(prefix, index) == [prefix |-> prefix, index |-> index]

PlainName(s) == MlirName(s, -1)

NoName == PlainName("")

\* FunctionLibraryDefinition::UniqueFunctionName: the first prefix<index> that
\* is not a function of the library; no library function is named f0
UniqueFunctionName(flib, f) == MlirName(f, 0)

(***************************************************************************)
(* The rest of a handler's straight-line code is kept as a work list: the  *)
(* attributes still to be converted, in the order the code converts them.  *)
(*   emit    : push one converted attribute,                               *)
(*   call    : ConvertFunctionCallName / the gradient: ConvertLibFunction, *)
(*   after   : the call has returned: look the function up, make the       *)
(*             symbol reference,                                           *)
(*   endlist : getArrayAttr of the references collected for a list,        *)
(*   fail    : return this error.                                          *)
(***************************************************************************)
WorkItem(t, f, site, name, attr_size, code) ==
    [t |-> t, f |-> f, site |-> site, name |-> name, attr_size |-> attr_size, code |-> code]

Emit(name, k) == WorkItem("emit", "", k, name, 0, OK)

Call(f, site, name, attr_size) == WorkItem("call", f, site, name, attr_size, OK)

Fail(code) == WorkItem("fail", "", "", <<"", "">>, 0, code)

RECURSIVE Concat(_)
Concat(ss) == IF ss = <<>> THEN <<>> ELSE Head(ss) \o Concat(Tail(ss))

\* ConvertAttributeValue of the value `kind' (of list items `items'), to be
\* pushed under `name'
ConvertAttributeValue(name, kind, items) ==
    CASE kind = "i" -> <<Emit(name, "int")>>
      [] kind = "list" ->
            [j \in 1..Len(items) |-> Call(items[j].name, "list", name, items[j].attr_size)]
            \o <<WorkItem("endlist", "", "", name, 0, OK)>>
      [] kind = "func" -> <<Fail(Unknown)>>
      [] OTHER -> <<Fail(Unimplemented)>>

\* ConvertFunctionCallAttribute(base_name, value, attributes)
ConvertFunctionCallAttribute(a) ==
    <<Call(a.func, "func", <<a.name, "">>, 0)>>
    \o Concat([j \in 1..Len(a.nested) |->
                 ConvertAttributeValue(<<a.name, a.nested[j][1]>>, a.nested[j][2], <<>>)])

\* one loop over node.attrs() that converts every attribute as it is met
NodeAttrWorkAsMet(order) ==
    Concat([j \in 1..Len(order) |->
               IF order[j].kind = "func" THEN ConvertFunctionCallAttribute(order[j])
               ELSE ConvertAttributeValue(<<order[j].name, "">>, order[j].kind, order[j].items)])

\* ConvertNode's two attribute loops over node.attrs() iterated in `order':
\* the other attributes as met, then the kFunc ones sorted by name
NodeAttrWork(order) ==
    LET isFunc(a) == a.kind = "func"
        notFunc(a) == a.kind # "func"
        byName(x, y) == AttrRank(x.name) < AttrRank(y.name)
        plain == SelectSeq(order, notFunc)
        funcs == StableSort(SelectSeq(order, isFunc), byName)
    IN Concat([j \in 1..Len(plain) |->
                  ConvertAttributeValue(<<plain[j].name, "">>, plain[j].kind, plain[j].items)])
       \o Concat([j \in 1..Len(funcs) |-> ConvertFunctionCallAttribute(funcs[j])])

\* ConvertLibFunction between the lookup and the child importer: the
\* definition's attributes in `order', then the gradient
LibFunctionWork(order, grad) ==
    Concat([j \in 1..Len(order) |->
               ConvertAttributeValue(<<order[j].name, "">>, order[j].kind, order[j].items)])
    \o (IF grad = "" THEN <<>> ELSE <<Call(grad, "grad", <<"tf.gradient", "">>, 0)>>)

(***************************************************************************)
(* The function library.  [fdef : name -> FunctionDef, grad : name -> name]*)
(* where a FunctionDef is [graph, attrs]: the body FunctionDefToBodyHelper  *)
(* instantiates and the definition's attribute map.                        *)
(***************************************************************************)
Find(flib, f) == f \in DOMAIN flib.fdef

FindGradient(flib, f) == IF f \in DOMAIN flib.grad THEN flib.grad[f] ELSE ""

\* a map with one more (or one replaced) entry: m[k] = v
Put(m, k, v) == [x \in (DOMAIN m) \cup {k} |-> IF x = k THEN v ELSE m[x]]

(***************************************************************************)
(* The IR.  A value is [op, idx]: result idx of operation op, or argument  *)
(* idx of the entry block when op = 0.  Types are abstract: the type of    *)
(* output i of node n is <<n, i>>.  An operation is a record               *)
(*   name, node (the node it was made for), operands, types, attrs,        *)
(*   inner (the operation wrapped by an island), erased.                   *)
(* `ops' holds every operation ever created, by identity; a function's     *)
(* `block' lists the operations of its graph body in block order.          *)
(***************************************************************************)
Val(op, idx) == [op |-> op, idx |-> idx]

TypeOf(n, i) == [node |-> n, out |-> i]

ControlType == TypeOf("!tf_executor.control", 0)

TokenType == TypeOf("!tf_executor.token", 0)

OpName(dialect, type, suffix) == [dialect |-> dialect, type |-> type, suffix |-> suffix]

Executor(s) == OpName("tf_executor", PlainName(s), "")

Inner(name, operands, types, attrs) ==
    [name |-> name, operands |-> operands, types |-> types, attrs |-> attrs]

NoInner == Inner(OpName("", NoName, ""), <<>>, <<>>, <<>>)

MkOp(name, node, operands, types, attrs, inner) ==
    [name |-> name, node |-> node, operands |-> operands, types |-> types,
     attrs |-> attrs, inner |-> inner, erased |-> FALSE]

\* the operation state ConvertNode fills in for one node
OperationState(node, name) ==
    [node |-> node, name |-> name, types |-> <<>>, operands |-> <<>>,
     control_operands |-> <<>>, attributes |-> <<>>, list |-> <<>>]

NoState == OperationState("", OpName("", NoName, ""))

FuncOp(name, fn, attrs, args, rets) ==
    [name |-> name, fn |-> fn, attrs |-> attrs, args |-> args, rets |-> rets,
     block |-> <<>>, fetch |-> <<>>, results |-> <<>>]

(***************************************************************************)
(* State.                                                                  *)
(*   callerGraph, callerFlib : the Graph and FunctionLibraryDefinition     *)
(*                  objects of the caller, passed by const reference;      *)
(*   given        : these two objects as the caller handed them in;        *)
(*   specs        : the GraphImportConfig;                                 *)
(*   stack        : the activations, innermost last;                       *)
(*   ret          : the Status of the call that returned last;             *)
(*   returned     : the activation that returned it, as it was then;       *)
(*   table        : tf_name_to_mlir_name_;                                 *)
(*   module       : the functions of the ModuleOp, in module order;        *)
(*   ops          : every operation created so far;                        *)
(*   result       : what ConvertGraphToMlir returned.                      *)
(***************************************************************************)
VARIABLES callerGraph, callerFlib, given, specs, stack, ret, returned, table, module, ops, result

importerVars ==
    <<callerGraph, callerFlib, given, specs, stack, ret, returned, table, module, ops, result>>

(***************************************************************************)
(* State of the offload executor (VEOAsync) and of the threads that call   *)
(* it.                                                                     *)
(*   stacks       : the KernelStack objects created so far, each the       *)
(*                  kernels it holds; an object is known by its position;  *)
(*   currStack_   : the KernelStack that compute fills (a pointer);        *)
(*   lock_stack_, lock_sync_, lock_veo_ : the thread that holds the mutex,  *)
(*                  0 if none;                                              *)
(*   thread       : per calling thread, the operation it is in, its         *)
(*                  position and its locals;                                *)
(*   device       : the batches handed to the device, in order;             *)
(*   pushed       : the kernels in the order they were queued;              *)
(*   calls        : the number of operations called so far.                 *)
(***************************************************************************)
VARIABLES stacks, currStack_, lock_stack_, lock_sync_, lock_veo_, thread, device, pushed, calls

veoVars ==
    <<stacks, currStack_, lock_stack_, lock_sync_, lock_veo_, thread, device, pushed, calls>>

(***************************************************************************)
(* State of one KernelStack object under its own operations.               *)
(*   num_kernels_, annotations_ : the fields;                              *)
(*   curr_        : the write position, as an offset from buf_;            *)
(*   pushes       : the value each push returned, in call order.           *)
(***************************************************************************)
VARIABLES num_kernels_, curr_, annotations_, pushes

kernelStackVars == <<num_kernels_, curr_, annotations_, pushes>>

(***************************************************************************)
(* State of the VEOFactory and of the threads that call GetOrCreate.       *)
(*   lock_        : the thread that holds the mutex, 0 if none;            *)
(*   veo_         : the instance, NoVEO if none;                           *)
(*   instances    : what init returned for each instance created;          *)
(*   caller       : per thread, its position, *pveo and the Status.        *)
(***************************************************************************)
VARIABLES lock_, veo_, instances, caller

factoryVars == <<lock_, veo_, instances, caller>>

(***************************************************************************)
(* State of ObjectNames during RecursivelyVisitObjectGraph.                *)
(*   object_graph_   : the children of each node, as <<local_name,         *)
(*                     node_id>> pairs in order;                           *)
(*   visiting        : the activations of RecursivelyVisitObjectGraph,     *)
(*                     innermost last, each [node_id, child];              *)
(*   path_segments_, on_stack_nodes_, object_names_ : the fields;          *)
(*   visits          : the number of activations begun so far.             *)
(***************************************************************************)
VARIABLES object_graph_, visiting, path_segments_, on_stack_nodes_, object_names_, visits

objectNamesVars ==
    <<object_graph_, visiting, path_segments_, on_stack_nodes_, object_names_, visits>>

otherVars == <<kernelStackVars, factoryVars, objectNamesVars>>

vars == <<importerVars, veoVars, otherVars>>

\* an activation: a ConvertLibFunction call with its child importer, or the
\* top-level GraphDefImporter::Convert with its importer
Frame(kind, fn) ==
    [kind |-> kind, fn |-> fn, pc |-> "entry",
     mlir_func_name |-> NoName,
     attributes |-> <<>>,
     work |-> <<>>,
     graph |-> EmptyGraph,
     back_edges |-> <<>>,
     back_edge_node_output |-> <<>>,
     back_edge_dst_inputs |-> <<>>,
     ordered_nodes |-> <<>>,
     changed |-> <<>>,
     i |-> 1,
     in_edges |-> <<>>,
     node_values |-> <<>>,
     node_type_name |-> NoName,
     state |-> NoState,
     arg_nodes |-> <<>>,
     ret_nodes |-> <<>>,
     control_ret_nodes |-> <<>>,
     function |-> 0]

Top == stack[Len(stack)]

Callers == SubSeq(stack, 1, Len(stack) - 1)

Running == stack # <<>>

\* the innermost activation becomes fr
Continue(fr) == stack' = Callers \o <<fr>>

\* the innermost activation returns status
Return(status) == stack' = Callers /\ ret' = status /\ returned' = Top

\* the innermost activation continues as fr and calls ConvertLibFunction(f)
CallLib(fr, f) ==
    /\ stack' = Callers \o <<fr, Frame("lib", f)>>
    /\ ret' = NoStatus
    /\ UNCHANGED returned

\* the process dies
Abort == stack' = <<>> /\ ret' = Aborted /\ returned' = Top

\* ModuleOp::lookupSymbol: the index of the function of this name, 0 if none
lookupSymbol(mod, name) ==
    IF \E k \in 1..Len(mod) : mod[k].name = name
    THEN CHOOSE k \in 1..Len(mod) : mod[k].name = name
    ELSE 0

(***************************************************************************)
(* ConvertGraphDefToGraph, as far as RemoveBackedges depends on it: the    *)
(* clone is built in dependency order.  A node is ready when all its       *)
(* inputs are built, except that a Merge with a data input from a          *)
(* NextIteration node is ready once (number of control inputs) + 1 of its  *)
(* inputs are built.  A graph some node of which never gets ready is       *)
(* rejected.                                                               *)
(***************************************************************************)
ReadyNode(g, n, built) ==
    LET has_loop_back_edge ==
            IsMerge(g, n) /\ \E e \in g.in[n] : ~IsControlEdge(e) /\ IsNextIteration(g, e.src)
        num_control_edges == Cardinality({e \in g.in[n] : IsControlEdge(e)})
        arrived == Cardinality({e \in g.in[n] : e.src \in built})
    IN IF has_loop_back_edge THEN arrived >= num_control_edges + 1
       ELSE arrived = Cardinality(g.in[n])

RECURSIVE Built(_, _)
Built(g, built) ==
    Once({n \in g.nodes \ built : ReadyNode(g, n, built)}, LAMBDA more :
        IF more = {} THEN built ELSE Built(g, built \cup more))

ConvertGraphDefToGraph(g) == IF Built(g, {}) = g.nodes THEN OK ELSE InvalidArgument

\* BackEdgeHelper::Remove finds every in-edge of a Merge node that comes from
\* a NextIteration node, control edges included
BackEdge(e, dst) ==
    [src |-> e.src, src_output |-> e.src_output, dst |-> dst, dst_input |-> e.dst_input]

BackEdges(g) ==
    UNION {{BackEdge(e, n) : e \in {x \in g.in[n] : IsNextIteration(g, x.src)}}
              : n \in {y \in g.nodes : IsMerge(g, y)}}

RemoveEdges(g, edges) ==
    [g EXCEPT !.in = [n \in g.nodes |->
                         {e \in g.in[n] : BackEdge(e, n) \notin edges}]]

(***************************************************************************)
(* FunctionalizeControlFlow(graph, flib_def) rewrites its two arguments in *)
(* place: the nodes of a legacy control-flow loop are replaced by one      *)
(* While node "x" whose body is a new function "w" of the library.  A      *)
(* graph without such nodes is left as it is.  The pass may also reject    *)
(* the loop.                                                               *)
(***************************************************************************)
LegacyOps == {"Merge", "NextIteration", "Switch", "Enter", "Exit", "LoopCond"}

LegacyNodes(g) == {n \in g.nodes : g.op[n] \in LegacyOps}

\* the body every function made by the pass has: an argument returned
BodyOfW ==
    [nodes |-> {"x", "r"},
     op |-> [n \in {"x", "r"} |-> IF n = "x" THEN "_Arg" ELSE "_Retval"],
     in |-> [n \in {"x", "r"} |-> IF n = "x" THEN {} ELSE {DataEdge("x", 0, 0)}],
     attrs |-> [n \in {"x", "r"} |-> {}],
     rooted |-> {"x"}]

\* a function definition; control_ret names the nodes of its control outputs
FunctionDef(graph, attrs) == [graph |-> graph, attrs |-> attrs, control_ret |-> <<>>]

FunctionalizedGraph(g) ==
    LET legacy == LegacyNodes(g)
        keep == (g.nodes \ legacy) \cup {"x"}
        rewire(e) == IF e.src \notin legacy THEN e
                     ELSE IF IsControlEdge(e) THEN ControlEdge("x")
                     ELSE DataEdge("x", 0, e.dst_input)
    IN [nodes |-> keep,
        op |-> [n \in keep |-> IF n = "x" THEN "While" ELSE g.op[n]],
        in |-> [n \in keep |-> IF n = "x" THEN {} ELSE {rewire(e) : e \in g.in[n]}],
        attrs |-> [n \in keep |-> IF n = "x" THEN {FuncAttr("body", "w", <<>>)}
                                  ELSE g.attrs[n]],
        rooted |-> (g.rooted \ legacy) \cup {"x"}]

FunctionalizedLibrary(flib) ==
    [flib EXCEPT !.fdef = Put(@, "w", FunctionDef(BodyOfW, {}))]

(***************************************************************************)
(* ConvertGraphToMlir up to the first call of GraphDefImporter::Convert:   *)
(* the legacy upgrade on the caller's own objects, the module, the empty   *)
(* name-translation table, the check of graph_as_function.                 *)
(***************************************************************************)
NoResult == [status |-> NoStatus, has_module |-> FALSE, module |-> <<>>]

Idle == stack = <<>> /\ ret = NoStatus /\ result = NoResult

Enter(g, flib) ==
    /\ callerGraph' = g
    /\ callerFlib' = flib
    /\ IF specs.graph_as_function
          /\ (specs.prune_unused_nodes \/ specs.inputs # <<>>
                \/ specs.output_arrays_order # <<>>)
       THEN stack' = <<>> /\ ret' = InvalidArgument /\ UNCHANGED returned
       ELSE /\ stack' = <<[Frame("main", "main") EXCEPT !.pc = "prepare"]>>
            /\ ret' = NoStatus
            /\ UNCHANGED returned

ConvertGraphToMlir ==
    /\ Idle
    /\ IF specs.upgrade_legacy /\ LegacyNodes(callerGraph) # {}
       THEN \/ Enter(FunctionalizedGraph(callerGraph), FunctionalizedLibrary(callerFlib))
            \/ /\ stack' = <<>>
               /\ ret' = InvalidArgument /\ UNCHANGED returned
               /\ UNCHANGED <<callerGraph, callerFlib>>
       ELSE Enter(callerGraph, callerFlib)
    /\ UNCHANGED <<otherVars, veoVars, given, specs, table, module, ops, result>>

(***************************************************************************)
(* ConvertLibFunction(func_name), from its entry to the first attribute.   *)
(***************************************************************************)
\* the activation goes on behind its attribute work
AfterWork(fr) ==
    IF fr.work # <<>> THEN fr
    ELSE [fr EXCEPT !.pc = IF fr.pc = "libattrs" THEN "prepare" ELSE "create"]

\* ConvertLibFunction taking a name without a definition for converted
ConvertLibFunctionUndefined ==
    /\ Running
    /\ Top.kind = "lib"
    /\ Top.pc = "entry"
    /\ IF Top.fn \in DOMAIN table
       THEN Return(OK) /\ UNCHANGED table
       ELSE LET mlir_func_name == UniqueFunctionName(callerFlib, Top.fn)
            IN /\ table' = Put(table, Top.fn, mlir_func_name)
               /\ IF ~Find(callerFlib, Top.fn)
                  THEN Return(OK)
                  ELSE \E order \in Orders(callerFlib.fdef[Top.fn].attrs) :
                          /\ Continue(AfterWork(
                               [Top EXCEPT !.pc = "libattrs",
                                           !.mlir_func_name = mlir_func_name,
                                           !.work = LibFunctionWork(
                                               order, FindGradient(callerFlib, Top.fn))]))
                          /\ ret' = NoStatus /\ UNCHANGED returned
    /\ UNCHANGED <<otherVars, veoVars, callerGraph, callerFlib, given, specs, module, ops, result>>

\* ConvertLibFunction without the insertion into tf_name_to_mlir_name_
ConvertLibFunctionUnrecorded ==
    /\ Running
    /\ Top.kind = "lib"
    /\ Top.pc = "entry"
    /\ IF Top.fn \in DOMAIN table
       THEN Return(OK)
       ELSE LET mlir_func_name == UniqueFunctionName(callerFlib, Top.fn)
            IN IF ~Find(callerFlib, Top.fn)
               THEN Return(FailedPrecondition)
               ELSE \E order \in Orders(callerFlib.fdef[Top.fn].attrs) :
                       /\ Continue(AfterWork(
                            [Top EXCEPT !.pc = "libattrs",
                                        !.mlir_func_name = mlir_func_name,
                                        !.work = LibFunctionWork(
                                            order, FindGradient(callerFlib, Top.fn))]))
                       /\ ret' = NoStatus /\ UNCHANGED returned
    /\ UNCHANGED <<otherVars, veoVars, callerGraph, callerFlib, given, specs, table, module, ops, result>>

\* ConvertLibFunction without the lookup in tf_name_to_mlir_name_: every call
\* converts the function
ConvertLibFunctionAgain ==
    /\ Running
    /\ Top.kind = "lib"
    /\ Top.pc = "entry"
    /\ LET mlir_func_name == UniqueFunctionName(callerFlib, Top.fn)
       IN /\ table' = Put(table, Top.fn, mlir_func_name)
          /\ IF ~Find(callerFlib, Top.fn)
             THEN Return(FailedPrecondition)
             ELSE \E order \in Orders(callerFlib.fdef[Top.fn].attrs) :
                     /\ Continue(AfterWork(
                          [Top EXCEPT !.pc = "libattrs",
                                      !.mlir_func_name = mlir_func_name,
                                      !.work = LibFunctionWork(
                                          order, FindGradient(callerFlib, Top.fn))]))
                     /\ ret' = NoStatus /\ UNCHANGED returned
    /\ UNCHANGED <<otherVars, veoVars, callerGraph, callerFlib, given, specs, module, ops, result>>

ConvertLibFunction ==
    /\ Running
    /\ Top.kind = "lib"
    /\ Top.pc = "entry"
    /\ IF Top.fn \in DOMAIN table
       THEN Return(OK) /\ UNCHANGED table
       ELSE LET mlir_func_name == UniqueFunctionName(callerFlib, Top.fn)
            IN /\ table' = Put(table, Top.fn, mlir_func_name)
               /\ IF ~Find(callerFlib, Top.fn)
                  THEN Return(FailedPrecondition)
                  ELSE \E order \in Orders(callerFlib.fdef[Top.fn].attrs) :
                          /\ Continue(AfterWork(
                               [Top EXCEPT !.pc = "libattrs",
                                           !.mlir_func_name = mlir_func_name,
                                           !.work = LibFunctionWork(
                                               order, FindGradient(callerFlib, Top.fn))]))
                          /\ ret' = NoStatus /\ UNCHANGED returned
    /\ UNCHANGED <<otherVars, veoVars, callerGraph, callerFlib, given, specs, module, ops, result>>

(***************************************************************************)
(* Attribute conversion, for a node (ConvertNode) and for a function       *)
(* definition (ConvertLibFunction).                                        *)
(***************************************************************************)
InAttributes == Running /\ Top.pc \in {"libattrs", "nodeattrs"} /\ Top.work # <<>>

\* attributes.push_back / result.attributes.push_back
PushAttr(fr, attr) ==
    IF fr.pc = "libattrs" THEN [fr EXCEPT !.attributes = Append(@, attr)]
    ELSE [fr EXCEPT !.state.attributes = Append(@, attr)]

Done(fr) == AfterWork([fr EXCEPT !.work = Tail(@)])

\* a reference to a function that is not there
NoSymbol == MlirName("?", -1)

\* ConvertAttributeValue, the cases that call nothing
ConvertAttribute ==
    /\ InAttributes
    /\ Head(Top.work).t \in {"emit", "endlist", "fail"}
    /\ LET item == Head(Top.work)
       IN CASE item.t = "emit" ->
                 /\ Continue(Done(PushAttr(Top, IRAttr(item.name, item.site, NoName, <<>>))))
                 /\ UNCHANGED <<ret, returned>>
            [] item.t = "endlist" ->
                 /\ Continue(Done(PushAttr([Top EXCEPT !.state.list = <<>>],
                                           IRAttr(item.name, "array", NoName, Top.state.list))))
                 /\ UNCHANGED <<ret, returned>>
            [] OTHER -> Return(item.code)
    /\ UNCHANGED <<otherVars, veoVars, callerGraph, callerFlib, given, specs, table, module, ops, result>>

\* ConvertFunctionCallName and the gradient lookup: the call
ConvertFunctionCallName ==
    /\ InAttributes
    /\ Head(Top.work).t = "call"
    /\ CallLib([Top EXCEPT !.work[1].t = "after"], Head(Top.work).f)
    /\ UNCHANGED <<otherVars, veoVars, callerGraph, callerFlib, given, specs, table, module, ops, result>>

\* ... and what follows the call: the table entry, lookupSymbol, the symbol
\* reference.  getSymbolRefAttr dereferences the function it is given.
FunctionCallReturn ==
    /\ InAttributes
    /\ Head(Top.work).t = "after"
    /\ LET item == Head(Top.work)
           func == lookupSymbol(module, table[item.f])
           ref == IF func = 0 THEN NoSymbol ELSE module[func].name
           goOn == CASE item.site = "list" ->
                          IF item.attr_size # 0 THEN Return(Unimplemented)
                          ELSE /\ Continue(Done([Top EXCEPT !.state.list = Append(@, ref)]))
                               /\ ret' = NoStatus /\ UNCHANGED returned
                     [] OTHER ->
                          /\ Continue(Done(PushAttr(Top, IRAttr(item.name, "symbol", ref, <<>>))))
                          /\ ret' = NoStatus /\ UNCHANGED returned
       IN IF ret # OK THEN Return(ret)
          ELSE IF func = 0 THEN Abort \/ goOn
          ELSE goOn
    /\ UNCHANGED <<otherVars, veoVars, callerGraph, callerFlib, given, specs, table, module, ops, result>>

(***************************************************************************)
(* PrepareConvert: RemoveBackedges, then AddNodesToShapeRefiner.           *)
(***************************************************************************)
\* the graph an activation converts: the caller's graph, or the body of the
\* library function
InputGraph(fr) == IF fr.kind = "main" THEN callerGraph ELSE callerFlib.fdef[fr.fn].graph

\* the loop over RemovedEdges() refusing a second back-edge of a source node,
\* whatever its output
RECURSIVE RecordBackEdgesOncePerNode(_, _)
RecordBackEdgesOncePerNode(edges, loop) ==
    Once(loop, LAMBDA st :
        IF edges = <<>> THEN st
        ELSE LET edge == Head(edges)
             IN IF edge.src \in DOMAIN st.node_output
                THEN [st EXCEPT !.status = FailedPrecondition]
                ELSE RecordBackEdgesOncePerNode(Tail(edges),
                        [st EXCEPT !.node_output = Put(@, edge.src, edge.src_output),
                                   !.dcheck = @ \/ edge.dst \in DOMAIN st.dst_inputs,
                                   !.dst_inputs = Put(@, edge.dst, edge)]))

\* the loop over RemovedEdges(): st = [status, node_output, dst_inputs, dcheck]
RECURSIVE RecordBackEdges(_, _)
RecordBackEdges(edges, loop) ==
    Once(loop, LAMBDA st :
        IF edges = <<>> THEN st
        ELSE LET edge == Head(edges)
             IN IF /\ edge.src \in DOMAIN st.node_output
                   /\ st.node_output[edge.src] # edge.src_output
                THEN [st EXCEPT !.status = FailedPrecondition]
                ELSE RecordBackEdges(Tail(edges),
                        [st EXCEPT !.node_output = Put(@, edge.src, edge.src_output),
                                   !.dcheck = @ \/ edge.dst \in DOMAIN st.dst_inputs,
                                   !.dst_inputs = Put(@, edge.dst, edge)]))

RemoveBackedges ==
    /\ Running
    /\ Top.pc = "prepare"
    /\ IF ConvertGraphDefToGraph(InputGraph(Top)) # OK
       THEN Return(ConvertGraphDefToGraph(InputGraph(Top)))
       ELSE \E edges \in Orders(BackEdges(InputGraph(Top))) :
            \E graph \in {RemoveEdges(InputGraph(Top), Range(edges))} :
            \E st \in {RecordBackEdges(edges, [status |-> OK, node_output |-> <<>>,
                                               dst_inputs |-> <<>>, dcheck |-> FALSE])} :
              LET goOn == IF st.status # OK THEN Return(st.status)
                          ELSE /\ Continue([Top EXCEPT
                                     !.pc = "refine",
                                     !.graph = graph,
                                     !.back_edges = edges,
                                     !.back_edge_node_output = st.node_output,
                                     !.back_edge_dst_inputs = st.dst_inputs,
                                     !.ordered_nodes = GetReversePostOrder(graph)])
                               /\ UNCHANGED <<ret, returned>>
              IN \* a build with assertions stops at the failed DCHECK
                 IF st.dcheck THEN Abort \/ goOn ELSE goOn
    /\ UNCHANGED <<otherVars, veoVars, callerGraph, callerFlib, given, specs, table, module, ops, result>>

\* the GraphImportConfig of an importer: ConvertLibFunction gives the child
\* importer a fresh one
DefaultSpecs ==
    [inputs |-> <<>>, output_arrays_order |-> <<>>, prune_unused_nodes |-> FALSE,
     graph_as_function |-> FALSE, upgrade_legacy |-> FALSE]

specs_(fr) == IF fr.kind = "main" THEN specs ELSE DefaultSpecs

output_arrays(sp) == {sp.output_arrays_order[k].name : k \in 1..Len(sp.output_arrays_order)}

NotReplaced == {"Placeholder", "LegacyFedInput", "_Arg"}

ShapeAttrs == {IntAttr("shape"), IntAttr("dtype")}

\* ReplaceWithPlaceholderNode for every node of `which': a Placeholder of the
\* same name takes over the out-edges, the in-edges go with the old node
ReplaceWithPlaceholderNode(g, which) ==
    [g EXCEPT !.op = [n \in g.nodes |-> IF n \in which THEN "Placeholder" ELSE g.op[n]],
              !.in = [n \in g.nodes |-> IF n \in which THEN {} ELSE g.in[n]],
              !.attrs = [n \in g.nodes |-> IF n \in which THEN ShapeAttrs ELSE g.attrs[n]],
              !.rooted = @ \ which]

\* Node::AddAttr of shape and dtype
AddShapeAttrs(g, which) ==
    [g EXCEPT !.attrs = [n \in g.nodes |->
        IF n \in which
        THEN {a \in g.attrs[n] : a.name \notin {"shape", "dtype"}} \cup ShapeAttrs
        ELSE g.attrs[n]]]

RECURSIVE ReverseReachable(_, _)
ReverseReachable(g, seen) ==
    Once({e.src : e \in UNION {g.in[n] : n \in seen}} \ seen, LAMBDA more :
        IF more = {} THEN seen ELSE ReverseReachable(g, seen \cup more))

\* PruneForReverseReachability(graph, start)
PruneForReverseReachability(g, start) ==
    FixupSourceAndSinkEdges(RemoveNodes(g, g.nodes \ ReverseReachable(g, start)))

(***************************************************************************)
(* The fixpoint loop of AddNodesToShapeRefiner.  ShapeRefiner::UpdateNode  *)
(* is an oracle: a run of the loop is the shape one output has before the  *)
(* first round and after the UpdateNode of each round (every other output  *)
(* keeps its handle), and the round in which UpdateNode fails, if any.     *)
(* A shape is [known, dims]: whether the rank is known, and the dimensions *)
(* (a negative dimension is unknown).                                      *)
(***************************************************************************)
kMaxIterationCount == 2

Dims == {-2, -1, 2, 3}

SeqsOfDims == UNION {[1..k -> Dims] : k \in 0..MaxRank}

UnknownShape == [known |-> FALSE, dims |-> <<>>]

Shapes == {UnknownShape} \cup {[known |-> TRUE, dims |-> d] : d \in SeqsOfDims}

\* the lambda same_inferred_shape(c, s0, s1)
same_inferred_shape(s0, s1) ==
    IF ~s0.known /\ ~s1.known THEN TRUE
    ELSE IF s0.known # s1.known \/ Len(s0.dims) # Len(s1.dims) THEN FALSE
    ELSE \A i \in 1..Len(s0.dims) :
            ~(s0.dims[i] >= 0 /\ s1.dims[i] >= 0 /\ s0.dims[i] # s1.dims[i])

ShapeRuns ==
    [shapes : [1..(kMaxIterationCount + 1) -> Shapes], error : 0..kMaxIterationCount]

\* the loop failing when it reaches the cap without convergence
RECURSIVE ShapeRoundsCapFails(_, _)
ShapeRoundsCapFails(run, loop) ==
    Once(loop, LAMBDA st :
        IF ~(st.i = 0 \/ st.changed[st.i]) THEN st
        ELSE IF st.i = kMaxIterationCount THEN [st EXCEPT !.status = FailedPrecondition]
        ELSE IF run.error = st.i + 1 THEN [st EXCEPT !.status = InvalidArgument]
        ELSE ShapeRoundsCapFails(run,
                [st EXCEPT !.i = @ + 1,
                           !.changed = Append(@, ~same_inferred_shape(run.shapes[st.i + 2],
                                                                      run.shapes[st.i + 1]))]))

\* while (changed && i != kMaxIterationCount): loop = [status, i, changed],
\* changed being the value of `changed' at the end of every round
RECURSIVE ShapeRounds(_, _)
ShapeRounds(run, loop) ==
    Once(loop, LAMBDA st :
        IF ~(st.i = 0 \/ st.changed[st.i]) \/ st.i = kMaxIterationCount THEN st
        ELSE IF run.error = st.i + 1 THEN [st EXCEPT !.status = InvalidArgument]
        ELSE ShapeRounds(run,
                [st EXCEPT !.i = @ + 1,
                           !.changed = Append(@, ~same_inferred_shape(run.shapes[st.i + 2],
                                                                      run.shapes[st.i + 1]))]))

ShapeFixpoint(run) == ShapeRounds(run, [status |-> OK, i |-> 0, changed |-> <<>>])

\* what the loop can end in
ShapeOutcomes == {ShapeFixpoint(run) : run \in ShapeRuns}

\* AddNodesToShapeRefiner without lines 562-576
AddNodesToShapeRefinerUnpruned ==
    /\ Running
    /\ Top.pc = "refine"
    /\ LET sp == specs_(Top)
           first == {n \in Range(Top.ordered_nodes) : IsOp(n)}
           fed == first \cap Range(sp.inputs)
           replaced == {n \in fed : Top.graph.op[n] \notin NotReplaced}
           fixed == FixupSourceAndSinkEdges(
                        AddShapeAttrs(ReplaceWithPlaceholderNode(Top.graph, replaced),
                                      fed \ replaced))
           named == Range(sp.inputs) \cup output_arrays(sp)
           prune == sp.prune_unused_nodes /\ named # {}
           graph == fixed
           ordered == GetReversePostOrder(graph)
           goOn == \E loop \in ShapeOutcomes :
                      IF loop.status # OK THEN Return(loop.status)
                      ELSE /\ Continue([Top EXCEPT !.pc = "infer", !.graph = graph,
                                                    !.ordered_nodes = ordered,
                                                    !.changed = loop.changed])
                           /\ UNCHANGED <<ret, returned>>
       IN IF \E n \in replaced : num_outputs(Top.graph, n) > 1
          THEN Return(FailedPrecondition)
          ELSE IF sp.prune_unused_nodes /\ ~(named \subseteq fixed.nodes)
          THEN Return(FailedPrecondition)
          \* the fixpoint loop reads the shape context of every ordered node;
          \* a node the first ordering did not reach has none
          ELSE IF \E n \in Range(ordered) : IsOp(n) /\ n \notin first
          THEN Abort \/ goOn
          ELSE goOn
    /\ UNCHANGED <<otherVars, veoVars, callerGraph, callerFlib, given, specs, table, module, ops, result>>

AddNodesToShapeRefiner ==
    /\ Running
    /\ Top.pc = "refine"
    /\ LET sp == specs_(Top)
           first == {n \in Range(Top.ordered_nodes) : IsOp(n)}
           fed == first \cap Range(sp.inputs)
           replaced == {n \in fed : Top.graph.op[n] \notin NotReplaced}
           fixed == FixupSourceAndSinkEdges(
                        AddShapeAttrs(ReplaceWithPlaceholderNode(Top.graph, replaced),
                                      fed \ replaced))
           named == Range(sp.inputs) \cup output_arrays(sp)
           prune == sp.prune_unused_nodes /\ named # {}
           graph == IF prune THEN PruneForReverseReachability(fixed, named) ELSE fixed
           ordered == GetReversePostOrder(graph)
           goOn == \E loop \in ShapeOutcomes :
                      IF loop.status # OK THEN Return(loop.status)
                      ELSE /\ Continue([Top EXCEPT !.pc = "infer", !.graph = graph,
                                                    !.ordered_nodes = ordered,
                                                    !.changed = loop.changed])
                           /\ UNCHANGED <<ret, returned>>
       IN IF \E n \in replaced : num_outputs(Top.graph, n) > 1
          THEN Return(FailedPrecondition)
          ELSE IF sp.prune_unused_nodes /\ ~(named \subseteq fixed.nodes)
          THEN Return(FailedPrecondition)
          \* the fixpoint loop reads the shape context of every ordered node;
          \* a node the first ordering did not reach has none
          ELSE IF \E n \in Range(ordered) : IsOp(n) /\ n \notin first
          THEN Abort \/ goOn
          ELSE goOn
    /\ UNCHANGED <<otherVars, veoVars, callerGraph, callerFlib, given, specs, table, module, ops, result>>

(***************************************************************************)
(* InferMainFunctionType / InferLibFunctionType with                       *)
(* GetArgsAndRetsFromFunctionBody: the argument and return nodes.          *)
(***************************************************************************)
OutputTensor(node, index) == [node |-> node, index |-> index]

NullNode == ""

AsFunction(fr) == fr.kind = "lib" \/ specs.graph_as_function

EntryFunction == IRAttr(<<"tf.entry_function", "">>, "dict", NoName, <<>>)

\* fbody.arg_nodes and fbody.ret_nodes, in index order
BodyNodes(g, kinds) ==
    LET which == SortByName({n \in g.nodes : g.op[n] \in kinds})
    IN [k \in 1..Len(which) |-> OutputTensor(which[k], 0)]

InferFunctionType ==
    /\ Running
    /\ Top.pc = "infer"
    /\ LET sp == specs_(Top)
           found(name) == IF name \in Range(Top.ordered_nodes) THEN name ELSE NullNode
           args == IF AsFunction(Top) THEN BodyNodes(InputGraph(Top), {"_Arg"})
                   ELSE [k \in 1..Len(sp.inputs) |-> OutputTensor(found(sp.inputs[k]), 0)]
           rets == IF AsFunction(Top)
                   THEN BodyNodes(InputGraph(Top), {"_Retval", "_DeviceRetval"})
                   ELSE [k \in 1..Len(sp.output_arrays_order) |->
                           OutputTensor(found(sp.output_arrays_order[k].name),
                                        sp.output_arrays_order[k].port)]
           \* GraphToFunctionDef gives the main graph no control outputs
           control_rets == IF Top.kind = "lib" THEN callerFlib.fdef[Top.fn].control_ret
                           ELSE <<>>
           entry == IF AsFunction(Top) THEN args # <<>> \/ rets # <<>>
                    ELSE sp.inputs # <<>> \/ sp.output_arrays_order # <<>>
       IN IF ~AsFunction(Top)
             /\ \/ \E k \in 1..Len(args) : args[k].node = NullNode
                \/ \E k \in 1..Len(rets) : rets[k].node = NullNode
                \/ \E k \in 1..Len(rets) : num_outputs(Top.graph, rets[k].node) <= rets[k].index
          THEN Return(InvalidArgument)
          ELSE /\ Continue([Top EXCEPT
                     !.pc = "convert",
                     !.changed = <<>>,
                     !.arg_nodes = args,
                     !.ret_nodes = rets,
                     !.control_ret_nodes = control_rets,
                     !.attributes = IF Top.kind = "main" /\ entry THEN <<EntryFunction>>
                                    ELSE @])
               /\ UNCHANGED <<ret, returned>>
    /\ UNCHANGED <<otherVars, veoVars, callerGraph, callerFlib, given, specs, table, module, ops, result>>

(***************************************************************************)
(* ImporterBase::Convert: the function is created and put into the module, *)
(* then the nodes are converted in order.                                  *)
(***************************************************************************)
Convert ==
    /\ Running
    /\ Top.pc = "convert"
    /\ LET name == IF Top.kind = "main" THEN PlainName("main") ELSE Top.mlir_func_name
           args == [k \in 1..Len(Top.arg_nodes) |->
                       TypeOf(Top.arg_nodes[k].node, Top.arg_nodes[k].index)]
           rets == [k \in 1..Len(Top.ret_nodes) |->
                       TypeOf(Top.ret_nodes[k].node, Top.ret_nodes[k].index)]
       IN /\ module' = Append(module, FuncOp(name, Top.fn, Top.attributes, args, rets))
          /\ Continue([Top EXCEPT !.pc = "node", !.i = 1, !.function = Len(module) + 1])
    /\ UNCHANGED <<otherVars, veoVars, callerGraph, callerFlib, given, specs, ret, returned, table, ops, result>>

\* a comparator that orders nothing
EdgeLessUnordered(e1, e2) == FALSE

\* the comparator of the stable sort of a node's in-edges
EdgeLess(e1, e2) ==
    IF IsControlEdge(e1) /\ ~IsControlEdge(e2) THEN FALSE
    ELSE IF ~IsControlEdge(e1) /\ IsControlEdge(e2) THEN TRUE
    ELSE e1.dst_input < e2.dst_input

\* a value read through a dangling or out-of-range reference
Garbage == Val(-1, 0)

NumResults(id) == Len(ops[id].types)

\* the operand loop without the lookup in node_values_: the operand of an
\* unregistered source is read through a null pointer
RECURSIVE OperandsUnchecked(_, _, _)
OperandsUnchecked(fr, edges, loop) ==
    Once(loop, LAMBDA st :
        IF edges = <<>> THEN st
        ELSE LET e == Head(edges)
                 known == e.src \in DOMAIN fr.node_values
                 inst == fr.node_values[e.src]
                 next == [st EXCEPT !.seen = Append(@, e)]
             IN IF IsSource(e.src)
                THEN IF Len(edges) + Len(st.seen) # 1
                     THEN [st EXCEPT !.status = FailedPrecondition]
                     ELSE OperandsUnchecked(fr, Tail(edges), next)
                ELSE IF IsArg(fr.graph, e.src) /\ IsControlEdge(e)
                THEN OperandsUnchecked(fr, Tail(edges), next)
                ELSE IF ~known
                THEN OperandsUnchecked(fr, Tail(edges),
                        IF IsControlEdge(e)
                        THEN [next EXCEPT !.control_operands = Append(@, Garbage)]
                        ELSE [next EXCEPT !.operands = Append(@, Garbage)])
                ELSE IF IsControlEdge(e)
                THEN OperandsUnchecked(fr, Tail(edges),
                        [next EXCEPT !.control_operands = Append(@, Val(inst, NumResults(inst) - 1))])
                ELSE OperandsUnchecked(fr, Tail(edges),
                        [next EXCEPT !.operands = Append(@, Val(inst, e.src_output))]))

\* the operand loop over the sorted in-edges: st = [status, operands,
\* control_operands, ub]
RECURSIVE Operands(_, _, _)
Operands(fr, edges, loop) ==
    Once(loop, LAMBDA st :
        IF edges = <<>> THEN st
        ELSE LET e == Head(edges)
                 inst == fr.node_values[e.src]
             IN IF IsSource(e.src)
                THEN IF Len(edges) + Len(st.seen) # 1
                     THEN [st EXCEPT !.status = FailedPrecondition]
                     ELSE Operands(fr, Tail(edges), [st EXCEPT !.seen = Append(@, e)])
                ELSE IF IsArg(fr.graph, e.src) /\ IsControlEdge(e)
                THEN Operands(fr, Tail(edges), [st EXCEPT !.seen = Append(@, e)])
                ELSE IF e.src \notin DOMAIN fr.node_values
                THEN [st EXCEPT !.status = FailedPrecondition]
                ELSE IF IsControlEdge(e)
                THEN Operands(fr, Tail(edges),
                        [st EXCEPT !.seen = Append(@, e),
                                   !.ub = @ \/ NumResults(inst) = 0,
                                   !.control_operands =
                                       Append(@, IF NumResults(inst) = 0 THEN Garbage
                                                 ELSE Val(inst, NumResults(inst) - 1))])
                ELSE Operands(fr, Tail(edges),
                        [st EXCEPT !.seen = Append(@, e),
                                   !.ub = @ \/ e.src_output >= NumResults(inst),
                                   !.operands =
                                       Append(@, IF e.src_output >= NumResults(inst) THEN Garbage
                                                 ELSE Val(inst, e.src_output))]))

(***************************************************************************)
(* ConvertNode.                                                            *)
(***************************************************************************)
AtNode == Running /\ Top.pc = "node" /\ Top.i <= Len(Top.ordered_nodes)

Node == Top.ordered_nodes[Top.i]

\* result.types: the node's outputs without the output that is a back-edge
OutputTypes(fr, node) ==
    LET kept(i) == ~(node \in DOMAIN fr.back_edge_node_output
                     /\ fr.back_edge_node_output[node] = i)
        outs == [i \in 1..num_outputs(fr.graph, node) |-> i - 1]
    IN [k \in 1..Len(SelectSeq(outs, kept)) |-> TypeOf(node, SelectSeq(outs, kept)[k])]

\* ConvertNode from the operation name to the start of the attributes
ConvertNodeAs(node_type_name) ==
    \E stored \in Orders(in_edges(Top.graph, Node)) :
    \E attrs \in Orders(Top.graph.attrs[Node]) :
    \E sorted \in {StableSort(stored, EdgeLess)} :
    \E st \in {Operands(Top, sorted,
                          [status |-> OK, operands |-> <<>>, control_operands |-> <<>>,
                           ub |-> FALSE, seen |-> <<>>])} :
       LET op_name == OpName("tf", node_type_name,
                             IF Node \in DOMAIN Top.back_edge_node_output
                             THEN ".sink" ELSE "")
           state == [OperationState(Node, op_name) EXCEPT
                        !.types = OutputTypes(Top, Node),
                        !.operands = st.operands,
                        !.control_operands = st.control_operands]
           goOn == /\ Continue(AfterWork([Top EXCEPT !.pc = "nodeattrs",
                                                     !.node_type_name = node_type_name,
                                                     !.in_edges = sorted,
                                                     !.state = state,
                                                     !.work = NodeAttrWork(attrs)]))
                   /\ ret' = NoStatus /\ UNCHANGED returned
           rest == IF st.status # OK THEN Return(st.status) ELSE goOn
       IN IF st.ub THEN Abort \/ rest ELSE rest

\* a node of the ordering: a pseudo-node is skipped; a node whose type is a
\* library function has the function converted first
ConvertNode ==
    /\ AtNode
    /\ IF ~IsOp(Node)
       THEN Continue([Top EXCEPT !.i = @ + 1]) /\ UNCHANGED <<ret, returned>>
       ELSE IF Find(callerFlib, Top.graph.op[Node])
       THEN CallLib([Top EXCEPT !.pc = "nodecall"], Top.graph.op[Node])
       ELSE ConvertNodeAs(PlainName(Top.graph.op[Node]))
    /\ UNCHANGED <<otherVars, veoVars, callerGraph, callerFlib, given, specs, table, module, ops, result>>

\* ConvertNode going on whatever ConvertLibFunction(node_type_name) returned
ConvertNodeReturnUnchecked ==
    /\ Running
    /\ Top.pc = "nodecall"
    /\ ConvertNodeAs(table[Top.graph.op[Node]])
    /\ UNCHANGED <<otherVars, veoVars, callerGraph, callerFlib, given, specs, table, module, ops, result>>

\* ... back from ConvertLibFunction(node_type_name)
ConvertNodeReturn ==
    /\ Running
    /\ Top.pc = "nodecall"
    /\ IF ret # OK THEN Return(ret)
       ELSE ConvertNodeAs(table[Top.graph.op[Node]])
    /\ UNCHANGED <<otherVars, veoVars, callerGraph, callerFlib, given, specs, table, module, ops, result>>

(***************************************************************************)
(* The end of ConvertNode: the name and device attributes, the If / While  *)
(* names, createOperation and the registration in node_values_.            *)
(***************************************************************************)
BareOps == {"Switch", "_SwitchN", "Merge", "LoopCond", "Enter", "Exit"}

StringAttr(name) == IRAttr(<<name, "">>, "string", NoName, <<>>)

BoolAttr(name, b) == IRAttr(<<name, "">>, IF b THEN "true" ELSE "false", NoName, <<>>)

\* result as ConvertNode hands it to createOperation
FinalState(fr) ==
    LET type == fr.graph.op[fr.state.node]
        named == [fr.state EXCEPT
                     !.attributes = @ \o <<StringAttr("name"), StringAttr("device")>>]
        stateless == BoolAttr("is_stateless",
                              fr.node_type_name \in {PlainName("StatelessIf"),
                                                     PlainName("StatelessWhile")})
    IN CASE type \in {"If", "StatelessIf"} ->
              [named EXCEPT !.name = OpName("tf", PlainName("If"), ""),
                            !.attributes = Append(@, stateless)]
         [] type \in {"While", "StatelessWhile"} ->
              [named EXCEPT !.name = OpName("tf", PlainName("While"), ""),
                            !.attributes = Append(@, stateless)]
         [] OTHER -> named

\* type of a value
TypeOfValue(v) ==
    IF v.op >= 1 /\ v.op <= Len(ops) /\ v.idx >= 0 /\ v.idx < NumResults(v.op)
    THEN ops[v.op].types[v.idx + 1]
    ELSE TypeOf("?", 0)

\* the operations createOperation makes, in creation order; the last one is
\* returned.  The NextIteration source is put at the head of the block.
createOperation(fr, state) ==
    LET node == state.node
        kind == fr.graph.op[node]
        types == Append(state.types, ControlType)
        operands == state.operands \o state.control_operands
        id == Len(ops) + 1
    IN CASE kind \in BareOps ->
              <<MkOp(Executor(kind), node, operands, types, state.attributes, NoInner)>>
         [] kind = "NextIteration" ->
              <<MkOp(Executor("NextIteration.Source"), node, <<>>,
                     <<IF operands = <<>> THEN TypeOf("?", 0) ELSE TypeOfValue(operands[1]),
                       TokenType, ControlType>>,
                     state.attributes, NoInner),
                MkOp(Executor("NextIteration.Sink"), node, <<Val(id, 1)>> \o operands,
                     <<>>, state.attributes, NoInner)>>
         [] kind = "ControlTrigger" ->
              <<MkOp(Executor("ControlTrigger"), node, operands, <<ControlType>>,
                     state.attributes, NoInner)>>
         [] OTHER ->
              <<MkOp(Executor("island"), node, state.control_operands, types, <<>>,
                     Inner(state.name, state.operands, state.types, state.attributes))>>

\* the source of a NextIteration created where the builder stands
CreateOperationAtEnd ==
    /\ Running
    /\ Top.pc = "create"
    /\ \E state \in {FinalState(Top)} :
       \E made \in {createOperation(Top, state)} :
       LET first == Len(ops) + 1
           last == Len(ops) + Len(made)
           block == module[Top.function].block
           goOn ==
               /\ ops' = ops \o made
               /\ module' = [module EXCEPT ![Top.function].block =
                                IF Len(made) = 2 THEN block \o <<first, last>>
                                ELSE Append(block, last)]
               /\ Continue([Top EXCEPT !.pc = "node", !.i = @ + 1, !.state = NoState,
                                       !.node_type_name = NoName, !.in_edges = <<>>,
                                       !.node_values = Put(@, state.node, last)])
               /\ UNCHANGED <<ret, returned>>
       IN \* operands[0] of a NextIteration node without operands
          IF Top.graph.op[state.node] = "NextIteration"
             /\ state.operands \o state.control_operands = <<>>
          THEN (Abort /\ UNCHANGED <<ops, module>>) \/ goOn
          ELSE goOn
    /\ UNCHANGED <<otherVars, veoVars, callerGraph, callerFlib, given, specs, table, result>>

CreateOperation ==
    /\ Running
    /\ Top.pc = "create"
    /\ \E state \in {FinalState(Top)} :
       \E made \in {createOperation(Top, state)} :
       LET first == Len(ops) + 1
           last == Len(ops) + Len(made)
           block == module[Top.function].block
           goOn ==
               /\ ops' = ops \o made
               /\ module' = [module EXCEPT ![Top.function].block =
                                IF Len(made) = 2 THEN <<first>> \o block \o <<last>>
                                ELSE Append(block, last)]
               /\ Continue([Top EXCEPT !.pc = "node", !.i = @ + 1, !.state = NoState,
                                       !.node_type_name = NoName, !.in_edges = <<>>,
                                       !.node_values = Put(@, state.node, last)])
               /\ UNCHANGED <<ret, returned>>
       IN \* operands[0] of a NextIteration node without operands
          IF Top.graph.op[state.node] = "NextIteration"
             /\ state.operands \o state.control_operands = <<>>
          THEN (Abort /\ UNCHANGED <<ops, module>>) \/ goOn
          ELSE goOn
    /\ UNCHANGED <<otherVars, veoVars, callerGraph, callerFlib, given, specs, table, result>>

(***************************************************************************)
(* AddBackedges and AddBackedge.  The loop state is                        *)
(*   [ops, block, status, ub, stale]: the operations, the block of the     *)
(*   function, the Status, whether a null, dangling or out-of-range        *)
(*   reference was used, and whether an erased operation was used.         *)
(***************************************************************************)
\* every use of a result of operation `old' becomes the same result of `new'
ReplaceAllUsesWith(operations, old, new) ==
    Once(operations, LAMBDA os :
        LET swap(v) == IF v.op = old THEN Val(new, v.idx) ELSE v
            swapAll(vs) == [k \in 1..Len(vs) |-> swap(vs[k])]
        IN [k \in 1..Len(os) |->
              [os[k] EXCEPT !.operands = swapAll(@), !.inner.operands = swapAll(@)]])

\* every use of value `old' becomes value `new'
ReplaceValue(operations, old, new) ==
    Once(operations, LAMBDA os :
        LET swap(v) == IF v = old THEN new ELSE v
            swapAll(vs) == [k \in 1..Len(vs) |-> swap(vs[k])]
        IN [k \in 1..Len(os) |->
              [os[k] EXCEPT !.operands = swapAll(@), !.inner.operands = swapAll(@)]])

Erase(os, id) == [os EXCEPT ![id].erased = TRUE]

Without(block, id) == SelectSeq(block, LAMBDA x : x # id)

\* the block with `new' put in front of `at'
InsertBefore(block, at, new) ==
    Concat([k \in 1..Len(block) |-> IF block[k] = at THEN <<new, at>> ELSE <<block[k]>>])

\* Operation::getOperand
getOperand(os, id, input) ==
    IF input >= 0 /\ input < Len(os[id].operands) THEN os[id].operands[input + 1]
    ELSE Garbage

AddBackedge(loop, sink, dst, dst_input) ==
    Once(loop, LAMBDA st :
        LET source == st.ops[sink].operands[1].op
            num_operands == Len(st.ops[dst].operands)
            operand(input) == IF input < dst_input THEN getOperand(st.ops, dst, input)
                              ELSE IF input = dst_input THEN Val(source, 0)
                              ELSE getOperand(st.ops, dst, input - 1)
            operands == [k \in 1..(num_operands + 1) |-> operand(k - 1)]
            new_dst == Len(st.ops) + 1
            made == MkOp(st.ops[dst].name, st.ops[dst].node, operands, st.ops[dst].types,
                         st.ops[dst].attrs, st.ops[dst].inner)
            stale == st.ops[sink].erased \/ st.ops[dst].erased
        IN [st EXCEPT !.ops = Erase(ReplaceAllUsesWith(Append(st.ops, made), dst, new_dst), dst),
                      !.block = Without(InsertBefore(st.block, dst, new_dst), dst),
                      !.stale = @ \/ stale,
                      !.ub = @ \/ stale \/ Garbage \in Range(operands)])

RECURSIVE AddBackedgesLoop(_, _, _)
AddBackedgesLoop(fr, keys, loop) ==
    Once(loop, LAMBDA st :
        IF keys = <<>> THEN st
        ELSE LET edge == fr.back_edge_dst_inputs[Head(keys)]
                 g == fr.graph
             IN IF ~(edge.src \in g.nodes /\ IsNextIteration(g, edge.src))
                   \/ ~(edge.dst \in g.nodes /\ IsMerge(g, edge.dst))
                THEN [st EXCEPT !.status = FailedPrecondition]
                ELSE IF edge.src \notin DOMAIN fr.node_values
                        \/ edge.dst \notin DOMAIN fr.node_values
                \* node_values_[...] is a null pointer
                THEN AddBackedgesLoop(fr, Tail(keys), [st EXCEPT !.ub = TRUE])
                ELSE AddBackedgesLoop(fr, Tail(keys),
                        AddBackedge(st, fr.node_values[edge.src], fr.node_values[edge.dst],
                                    edge.dst_input)))

AddBackedges ==
    /\ Running
    /\ Top.pc = "node"
    /\ Top.i > Len(Top.ordered_nodes)
    /\ \E keys \in Orders(DOMAIN Top.back_edge_dst_inputs) :
       \E st \in {AddBackedgesLoop(Top, keys,
                      [ops |-> ops, block |-> module[Top.function].block,
                       status |-> OK, ub |-> FALSE, stale |-> FALSE])} :
          LET goOn == /\ ops' = st.ops
                      /\ module' = [module EXCEPT ![Top.function].block = st.block]
                      /\ IF st.status # OK THEN Return(st.status)
                         ELSE /\ Continue([Top EXCEPT !.pc = "argrets"])
                              /\ UNCHANGED <<ret, returned>>
          IN IF st.ub THEN (Abort /\ UNCHANGED <<ops, module>>) \/ goOn ELSE goOn
    /\ UNCHANGED <<otherVars, veoVars, callerGraph, callerFlib, given, specs, table, result>>

(***************************************************************************)
(* ConvertFunctionArgAndRets.  The loop state is [ops, block, status, ub,  *)
(* stale, inst_to_return].  The graph operation has one result per type of *)
(* func_type.getResults().                                                 *)
(***************************************************************************)
\* the argument wiring that leaves the block argument out of the operands
RECURSIVE WireArgsUnfed(_, _, _)
WireArgsUnfed(fr, i, loop) ==
    Once(loop, LAMBDA st :
        IF i > Len(fr.arg_nodes) THEN st
        ELSE LET node == fr.arg_nodes[i].node
                 island == fr.node_values[node]
                 bb_arg == Val(0, i - 1)
                 inst == st.ops[island].inner
             IN IF node \notin DOMAIN fr.node_values
                THEN WireArgsUnfed(fr, i + 1, [st EXCEPT !.ub = TRUE])
                ELSE IF IsArg(fr.graph, node)
                THEN WireArgsUnfed(fr, i + 1,
                        [st EXCEPT !.ops = Erase(ReplaceValue(@, Val(island, 0), bb_arg), island),
                                   !.block = Without(@, island)])
                ELSE WireArgsUnfed(fr, i + 1,
                        [st EXCEPT !.ops[island].inner =
                            Inner([inst.name EXCEPT !.suffix = ".input"],
                                  inst.operands, inst.types, inst.attrs)]))

RECURSIVE WireArgs(_, _, _)
WireArgs(fr, i, loop) ==
    Once(loop, LAMBDA st :
        IF i > Len(fr.arg_nodes) THEN st
        ELSE LET node == fr.arg_nodes[i].node
                 island == fr.node_values[node]
                 bb_arg == Val(0, i - 1)
                 inst == st.ops[island].inner
             IN IF node \notin DOMAIN fr.node_values
                \* node_values_.find(...) is end()
                THEN WireArgs(fr, i + 1, [st EXCEPT !.ub = TRUE])
                ELSE IF IsArg(fr.graph, node)
                THEN WireArgs(fr, i + 1,
                        [st EXCEPT !.ops = Erase(ReplaceValue(@, Val(island, 0), bb_arg), island),
                                   !.ub = @ \/ st.ops[island].erased,
                                   !.stale = @ \/ st.ops[island].erased,
                                   !.block = Without(@, island)])
                ELSE WireArgs(fr, i + 1,
                        [st EXCEPT !.ub = @ \/ st.ops[island].erased,
                                   !.stale = @ \/ st.ops[island].erased,
                                   !.ops[island].inner =
                            Inner([inst.name EXCEPT !.suffix = ".input"],
                                  Append(inst.operands, bb_arg), inst.types, inst.attrs)]))

RECURSIVE WireRets(_, _, _)
WireRets(fr, i, loop) ==
    Once(loop, LAMBDA st :
        IF i > Len(fr.ret_nodes) THEN st
        ELSE LET ret_node == fr.ret_nodes[i]
                 inst == fr.node_values[ret_node.node]
             IN IF ret_node.node \notin DOMAIN fr.node_values
                \* node_values_[...] is a null pointer
                THEN WireRets(fr, i + 1, [st EXCEPT !.ub = TRUE,
                                                    !.inst_to_return = Append(@, Garbage)])
                ELSE IF IsRetval(fr.graph, ret_node.node)
                THEN IF Len(st.ops[inst].inner.operands) # 1
                     THEN [st EXCEPT !.status = Unimplemented]
                     ELSE WireRets(fr, i + 1,
                             [st EXCEPT !.inst_to_return = Append(@, st.ops[inst].inner.operands[1]),
                                        !.ub = @ \/ st.ops[inst].erased,
                                        !.stale = @ \/ st.ops[inst].erased,
                                        !.ops = Erase(@, inst),
                                        !.block = Without(@, inst)])
                ELSE WireRets(fr, i + 1,
                        [st EXCEPT !.ub = @ \/ st.ops[inst].erased
                                            \/ ret_node.index >= Len(st.ops[inst].types),
                                   !.stale = @ \/ st.ops[inst].erased,
                                   !.inst_to_return =
                                       Append(@, IF ret_node.index >= Len(st.ops[inst].types)
                                                 THEN Garbage ELSE Val(inst, ret_node.index))]))

\* the control tokens put in front of the values to return
RECURSIVE WireControlRetsFirst(_, _, _)
WireControlRetsFirst(fr, i, loop) ==
    Once(loop, LAMBDA st :
        IF i > Len(fr.control_ret_nodes) THEN st
        ELSE LET node == fr.control_ret_nodes[i]
                 inst == fr.node_values[node]
                 usable == node \in DOMAIN fr.node_values /\ Len(st.ops[inst].types) > 0
             IN WireControlRetsFirst(fr, i + 1,
                   [st EXCEPT !.ub = @ \/ ~usable,
                              !.inst_to_return =
                                  <<IF usable THEN Val(inst, Len(st.ops[inst].types) - 1)
                                    ELSE Garbage>> \o @]))

RECURSIVE WireControlRets(_, _, _)
WireControlRets(fr, i, loop) ==
    Once(loop, LAMBDA st :
        IF i > Len(fr.control_ret_nodes) THEN st
        ELSE LET node == fr.control_ret_nodes[i]
                 inst == fr.node_values[node]
                 known == node \in DOMAIN fr.node_values
                 usable == known /\ Len(st.ops[inst].types) > 0
             IN WireControlRets(fr, i + 1,
                   [st EXCEPT !.ub = @ \/ ~usable \/ st.ops[inst].erased,
                              !.stale = @ \/ (known /\ st.ops[inst].erased),
                              !.inst_to_return =
                                  Append(@, IF usable THEN Val(inst, Len(st.ops[inst].types) - 1)
                                            ELSE Garbage)]))

ConvertFunctionArgAndRets ==
    /\ Running
    /\ Top.pc = "argrets"
    /\ \E done \in {WireRets(Top, 1,
                       WireArgs(Top, 1,
                          [ops |-> ops, block |-> module[Top.function].block,
                           status |-> OK, ub |-> FALSE, stale |-> FALSE,
                           inst_to_return |-> <<>>]))} :
       \E st \in {WireControlRets(Top, 1, done)} :
       LET goOn == /\ ops' = st.ops
                   /\ module' = [module EXCEPT ![Top.function].block = st.block,
                                               ![Top.function].fetch = st.inst_to_return,
                                               ![Top.function].results =
                                                   [k \in 1..Len(module[Top.function].rets) |-> k - 1]]
                   /\ Return(OK)
           fail == /\ ops' = done.ops
                   /\ module' = [module EXCEPT ![Top.function].block = done.block]
                   /\ Return(done.status)
       IN IF done.status # OK THEN fail
          ELSE IF st.ub THEN (Abort /\ UNCHANGED <<ops, module>>) \/ goOn
          ELSE goOn
    /\ UNCHANGED <<otherVars, veoVars, callerGraph, callerFlib, given, specs, table, result>>

(***************************************************************************)
(* The end of GraphDefImporter::Convert and ConvertGraphToMlir: the module *)
(* if Convert returned OK, the error otherwise.                            *)
(***************************************************************************)
ReturnModule ==
    /\ stack = <<>>
    /\ ret # NoStatus
    /\ result = NoResult
    /\ result' = [status |-> ret, has_module |-> ret = OK,
                  module |-> IF ret = OK THEN module ELSE <<>>]
    /\ UNCHANGED <<otherVars, veoVars, callerGraph, callerFlib, given, specs, stack, ret, returned, table, module, ops>>

(***************************************************************************)
(* The inputs.  A Graph object has its _SOURCE edges in place.             *)
(***************************************************************************)
Graph(nodes, op, in, attrs) ==
    [nodes |-> nodes, op |-> op, in |-> in, attrs |-> attrs,
     rooted |-> {n \in nodes : in[n] = {}}]

SeqsUpTo(S, n) == UNION {[1..k -> S] : k \in 0..n}

Library(fdef, grad) == [fdef |-> fdef, grad |-> grad]

NoLibrary == Library(<<>>, <<>>)

Config(inputs, outputs, prune, as_function, upgrade) ==
    [inputs |-> inputs, output_arrays_order |-> outputs, prune_unused_nodes |-> prune,
     graph_as_function |-> as_function, upgrade_legacy |-> upgrade]

Port(name, port) == [name |-> name, port |-> port]

Input(graph, flib, config) == [graph |-> graph, flib |-> flib, specs |-> config]

(***************************************************************************)
(* Loop graphs.  Merge "m" takes the data inputs mIn (input k from output  *)
(* 0 of mIn[k]) and control inputs from mCtl; "n" is a NextIteration of m, *)
(* "q" a NextIteration of the constant "a", "b" a consumer of m of type    *)
(* bOp (with a control input from "a" if bCtl), "p" a second Merge fed by  *)
(* pIn; "c" is a constant.                                                 *)
(***************************************************************************)
LoopGraph(mIn, mCtl, pIn, bOp, bCtl) ==
    LET used == Range(mIn) \cup mCtl \cup {pIn}
        nodes == {"a", "m", "b"} \cup (used \cap {"n", "q", "c"})
                    \cup (IF pIn = "" THEN {} ELSE {"p"})
        op == [x \in nodes |->
                 CASE x \in {"a", "c"} -> "Const"
                   [] x \in {"m", "p"} -> "Merge"
                   [] x \in {"n", "q"} -> "NextIteration"
                   [] OTHER -> bOp]
        in == [x \in nodes |->
                 CASE x = "m" -> {DataEdge(mIn[k], 0, k - 1) : k \in 1..Len(mIn)}
                                 \cup {ControlEdge(y) : y \in mCtl}
                   [] x = "p" -> {DataEdge(pIn, 0, 0)}
                   [] x = "n" -> {DataEdge("m", 0, 0)}
                   [] x = "q" -> {DataEdge("a", 0, 0)}
                   [] x = "b" -> {DataEdge("m", 0, 0)}
                                 \cup (IF bCtl THEN {ControlEdge("a")} ELSE {})
                   [] OTHER -> {}]
    IN Graph(nodes, op, in, [x \in nodes |-> {}])

\* a function body: the argument "x", one node per reference (named after
\* RefNodes, each reading x), the return value "r" of the last node
RefNodes == <<"b", "c", "p", "q">>

Ref(via, f) == [via |-> via, f |-> f]

\* the node that makes a reference: by its type, by a function-valued
\* attribute, by a list attribute (an item with attributes if via = "items")
RefOp(ref) ==
    CASE ref.via = "type" -> ref.f
      [] ref.via = "func" -> "PartitionedCall"
      [] OTHER -> "Case"

RefAttrs(ref) ==
    CASE ref.via = "type" -> {IntAttr("T")}
      [] ref.via = "func" -> {IntAttr("T"), FuncAttr("f", ref.f, <<>>)}
      [] ref.via = "list" -> {ListAttr("N", <<[name |-> ref.f, attr_size |-> 0]>>)}
      [] ref.via = "nested" -> {IntAttr("T"), FuncAttr("f", ref.f, <<<<"k", "i">>>>)}
      [] OTHER -> {ListAttr("N", <<[name |-> ref.f, attr_size |-> 1]>>)}

Body(refs) ==
    LET nodes == {"x", "r"} \cup {RefNodes[k] : k \in 1..Len(refs)}
        at(n) == CHOOSE k \in 1..Len(refs) : RefNodes[k] = n
        last == IF refs = <<>> THEN "x" ELSE RefNodes[Len(refs)]
        op == [n \in nodes |->
                 CASE n = "x" -> "_Arg"
                   [] n = "r" -> "_Retval"
                   [] OTHER -> RefOp(refs[at(n)])]
        in == [n \in nodes |->
                 CASE n = "x" -> {}
                   [] n = "r" -> {DataEdge(last, 0, 0)}
                   [] OTHER -> {DataEdge("x", 0, 0)}]
        attrs == [n \in nodes |->
                 IF n \in {"x", "r"} THEN {IntAttr("T")} ELSE RefAttrs(refs[at(n)])]
    IN Graph(nodes, op, in, attrs)

\* the library in which "f" converts, and one in which its definition
\* carries a function-valued attribute
GoodF == Library([n \in {"f"} |-> FunctionDef(Body(<<>>), {})], <<>>)

BadF == Library([n \in {"f"} |-> FunctionDef(Body(<<>>), {FuncAttr("f", "f", <<>>)})], <<>>)

Default == Config(<<>>, <<>>, FALSE, FALSE, FALSE)

Configs ==
    {Config(<<"a">>, <<>>, FALSE, FALSE, FALSE),
     Config(<<"m">>, <<>>, FALSE, FALSE, FALSE),
     Config(<<>>, <<Port("b", 0)>>, FALSE, FALSE, FALSE),
     Config(<<>>, <<Port("m", 0)>>, TRUE, FALSE, FALSE),
     Config(<<>>, <<Port("x", 0)>>, TRUE, FALSE, FALSE),
     Config(<<"b">>, <<Port("m", 0)>>, TRUE, FALSE, FALSE),
     Config(<<"a">>, <<Port("b", 0)>>, TRUE, FALSE, FALSE),
     Config(<<>>, <<Port("x", 0)>>, FALSE, FALSE, FALSE),
     Config(<<"x">>, <<>>, TRUE, FALSE, FALSE),
     Config(<<"x">>, <<>>, FALSE, FALSE, FALSE),
     Config(<<>>, <<>>, FALSE, FALSE, TRUE),
     Config(<<>>, <<>>, FALSE, TRUE, FALSE),
     Config(<<>>, <<>>, TRUE, TRUE, FALSE)}

MergeInputs == SeqsUpTo({"a", "b", "n", "q"}, MaxMergeIn)

ControlInputs == {S \in SUBSET {"a", "c", "q"} : Cardinality(S) <= MaxCtlIn}

\* loops with control inputs, loops with a second Merge, loops whose consumer
\* is a library function, loops under each configuration
LoopInputs ==
    {Input(LoopGraph(mIn, mCtl, "", "Identity", FALSE), NoLibrary, Default)
        : mIn \in MergeInputs, mCtl \in ControlInputs}
    \cup {Input(LoopGraph(mIn, {}, pIn, "Identity", FALSE), NoLibrary, Default)
        : mIn \in MergeInputs, pIn \in {"n", "q"}}
    \cup {Input(LoopGraph(mIn, {}, "", "f", bCtl), flib, Default)
        : mIn \in MergeInputs, bCtl \in BOOLEAN, flib \in {GoodF, BadF}}
    \cup {Input(LoopGraph(mIn, {}, "", "Identity", FALSE), NoLibrary, config)
        : mIn \in SeqsUpTo({"a", "n"}, MaxMergeIn), config \in Configs}

(***************************************************************************)
(* Call graphs.  The main graph is a constant "a" and a node "c" that      *)
(* makes one reference; the library defines "f" and perhaps "g", never     *)
(* "h".  A definition is its gradient, the references of its body and its  *)
(* attributes.                                                             *)
(***************************************************************************)
CallGraph(ref) ==
    Graph({"a", "c"},
          [n \in {"a", "c"} |-> IF n = "a" THEN "Const" ELSE RefOp(ref)],
          [n \in {"a", "c"} |-> IF n = "a" THEN {} ELSE {DataEdge("a", 0, 0)}],
          [n \in {"a", "c"} |-> IF n = "a" THEN {IntAttr("T")} ELSE RefAttrs(ref)])

Def(grad, refs, attrs) == [grad |-> grad, refs |-> refs, attrs |-> attrs]

\* the library of the definitions defs : name -> Def
LibraryOf(defs) ==
    Library([n \in DOMAIN defs |-> FunctionDef(Body(defs[n].refs), defs[n].attrs)],
            [n \in {x \in DOMAIN defs : defs[x].grad # ""} |-> defs[n].grad])

MainRefs ==
    {Ref("type", "f"), Ref("func", "f"), Ref("func", "h"), Ref("items", "f")}

FRefs ==
    {Ref("type", "g"), Ref("func", "f"), Ref("func", "g"), Ref("func", "h"),
     Ref("list", "g")}

FDefs ==
    {Def(grad, refs, {}) : grad \in {"", "g", "h"}, refs \in SeqsUpTo(FRefs, MaxBodyRefs)}
    \cup {Def("", <<>>, {FuncAttr("f", "g", <<>>)}),
          Def("", <<>>, {ListAttr("N", <<[name |-> "g", attr_size |-> 0]>>)})}

GDefs ==
    {Def(grad, refs, {}) : grad \in {"", "f"},
                           refs \in {<<>>, <<Ref("func", "f")>>, <<Ref("func", "h")>>}}

Libraries ==
    {LibraryOf([n \in {"f"} |-> f]) : f \in FDefs}
    \cup {LibraryOf([n \in {"f", "g"} |-> IF n = "f" THEN f ELSE g]) : f \in FDefs, g \in GDefs}

CallInputs == {Input(CallGraph(ref), flib, Default) : ref \in MainRefs, flib \in Libraries}

(***************************************************************************)
(* Attributes.  The node "c" of the main graph carries the attributes      *)
(* attrs; a function-valued attribute carries nested attributes <<key,     *)
(* kind>> in the order the attribute map hands them out.                   *)
(***************************************************************************)
AttrGraph(attrs) ==
    Graph({"a", "c"},
          [n \in {"a", "c"} |-> IF n = "a" THEN "Const" ELSE "PartitionedCall"],
          [n \in {"a", "c"} |-> IF n = "a" THEN {} ELSE {DataEdge("a", 0, 0)}],
          [n \in {"a", "c"} |-> IF n = "a" THEN {IntAttr("T")} ELSE attrs])

NodeAttrs ==
    {{IntAttr("T"), FuncAttr("f", "f", <<<<"k", "i">>>>)},
     {FuncAttr("f", "f", <<<<"k", "i">>, <<"j", "i">>>>)},
     {FuncAttr("f", "f", <<<<"j", "i">>, <<"k", "i">>>>)},
     {FuncAttr("f", "f", <<<<"k", "func">>>>)},
     {FuncAttr("f", "f", <<<<"k", "i">>, <<"j", "func">>>>)},
     {IntAttr("T"), FuncAttr("body", "g", <<>>), FuncAttr("cond", "f", <<<<"k", "i">>>>)},
     {IntAttr("N"), IntAttr("T"), FuncAttr("body", "f", <<>>), FuncAttr("cond", "g", <<>>)},
     {ListAttr("N", <<[name |-> "g", attr_size |-> 0]>>), FuncAttr("body", "g", <<>>),
      FuncAttr("f", "f", <<>>)}}

AttrLibraries ==
    {LibraryOf([n \in {"f", "g"} |-> Def(IF n = "f" THEN fGrad ELSE gGrad,
                                         IF n = "g" THEN gRefs ELSE <<>>, {})])
        : fGrad \in {"", "g"}, gGrad \in {"", "f"},
          gRefs \in {<<>>, <<Ref("nested", "f")>>}}

AttrInputs == {Input(AttrGraph(attrs), flib, Default) : attrs \in NodeAttrs, flib \in AttrLibraries}

(***************************************************************************)
(* Function bodies with arguments, return values and control outputs.      *)
(* The body has the argument "x" (and "a" if twoArgs), "b" reading the      *)
(* arguments, "c" reading b, the return value "r" of the node retFrom (and *)
(* "q" of c if twoRets), and, if loop, the Merge "m" of b and of its own    *)
(* NextIteration "n".                                                      *)
(***************************************************************************)
WireBody(twoArgs, retFrom, twoRets, loop) ==
    LET nodes == {"x", "b", "c", "r"} \cup (IF twoArgs THEN {"a"} ELSE {})
                    \cup (IF twoRets THEN {"q"} ELSE {})
                    \cup (IF loop THEN {"m", "n"} ELSE {})
        op == [y \in nodes |->
                 CASE y \in {"a", "x"} -> "_Arg"
                   [] y \in {"q", "r"} -> "_Retval"
                   [] y = "m" -> "Merge"
                   [] y = "n" -> "NextIteration"
                   [] OTHER -> "Identity"]
        in == [y \in nodes |->
                 CASE y = "b" -> {DataEdge("x", 0, 0)}
                                 \cup (IF twoArgs THEN {DataEdge("a", 0, 1)} ELSE {})
                   [] y = "c" -> {DataEdge("b", 0, 0)}
                   [] y = "r" -> {DataEdge(retFrom, 0, 0)}
                   [] y = "q" -> {DataEdge("c", 0, 0)}
                   [] y = "m" -> {DataEdge("b", 0, 0), DataEdge("n", 0, 1)}
                   [] y = "n" -> {DataEdge("m", 0, 0)}
                   [] OTHER -> {}]
    IN Graph(nodes, op, in, [y \in nodes |-> {}])

WireBodies ==
    {[FunctionDef(WireBody(twoArgs, retFrom, twoRets, lc[1]), {}) EXCEPT !.control_ret = lc[2]]
        : twoArgs \in BOOLEAN, retFrom \in {"x", "b"}, twoRets \in BOOLEAN,
          lc \in {<<FALSE, <<>>>>, <<FALSE, <<"c">>>>, <<FALSE, <<"c", "b">>>>,
                  <<TRUE, <<"c">>>>, <<TRUE, <<"m">>>>}}

WireConfigs == {Default, Config(<<"a">>, <<Port("c", 0)>>, FALSE, FALSE, FALSE)}

WireInputs ==
    {Input(CallGraph(Ref("type", "f")), Library([n \in {"f"} |-> body], <<>>), config)
        : body \in WireBodies, config \in WireConfigs}

Inputs == LoopInputs \cup CallInputs \cup AttrInputs \cup WireInputs

(***************************************************************************)
(* The offload executor as constructed: an empty KernelStack, free         *)
(* mutexes, no thread inside.                                              *)
(***************************************************************************)
Internal == "Internal"

Threads == {1, 2}

\* uint64_t addresses: one that veo_alloc_mem handed out, 0, anything else
ValidAddr == "addr"

NullAddr == "0"

GarbageAddr == "?"

IdleThread ==
    [op |-> "none", pc |-> "idle", kernel |-> 0, stack |-> 0, n |-> 0, before |-> {},
     failed |-> FALSE, status |-> NoStatus, context |-> OK, addr |-> NullAddr]

VEOAsync ==
    /\ stacks = <<<<>>>>
    /\ currStack_ = 1
    /\ lock_stack_ = 0
    /\ lock_sync_ = 0
    /\ lock_veo_ = 0
    /\ thread = [t \in Threads |-> IdleThread]
    /\ device = <<>>
    /\ pushed = <<>>
    /\ calls = 0

(***************************************************************************)
(* A KernelStack as constructed.  Positions are offsets from buf_, so      *)
(* the buffer is the bytes 0 .. buf_size_ - 1.                             *)
(***************************************************************************)
\* VEOAsync::stack_size_, scaled down
buf_size_ == 64

sizeof_int32_t == 4

sizeof_uint64_t == 8

sizeof_size_t == 8

\* top_ = curr_ + buf_size_, taken after curr_ has skipped the kernel count
top_ == sizeof_int32_t + buf_size_

NoPush == [len |-> 0, rc |-> 0]

KernelStack ==
    /\ num_kernels_ = 0
    /\ curr_ = sizeof_int32_t
    /\ annotations_ = <<>>
    /\ pushes = <<>>

(***************************************************************************)
(* The VEOFactory as constructed, no thread in GetOrCreate.                *)
(***************************************************************************)
NoVEO == 0

\* the VEDevice threads that call VEDevice::Sync
NumDevices == 3

Devices == 1..NumDevices

IdleCaller == [pc |-> "idle", pveo |-> NoVEO, status |-> NoStatus]

VEOFactory ==
    /\ lock_ = 0
    /\ veo_ = NoVEO
    /\ instances = <<>>
    /\ caller = [t \in Devices |-> IdleCaller]

(***************************************************************************)
(* ObjectNames before its constructor runs, for the object graph g.        *)
(***************************************************************************)
NoObjectGraph == <<>>

ObjectNamesOf(g) ==
    /\ object_graph_ = g
    /\ visiting = <<>>
    /\ path_segments_ = <<>>
    /\ on_stack_nodes_ = {}
    /\ object_names_ = <<>>
    /\ visits = 0

\* nothing but the conversion runs
Others == KernelStack /\ VEOFactory /\ ObjectNamesOf(NoObjectGraph)

Init ==
    /\ \E input \in Inputs :
          /\ callerGraph = input.graph
          /\ callerFlib = input.flib
          /\ given = [graph |-> input.graph, flib |-> input.flib]
          /\ specs = input.specs
    /\ stack = <<>>
    /\ ret = NoStatus
    /\ returned = Frame("none", "")
    /\ table = <<>>
    /\ module = <<>>
    /\ ops = <<>>
    /\ result = NoResult
    /\ VEOAsync
    /\ Others

Next ==
    \/ ConvertGraphToMlir
    \/ ConvertLibFunction
    \/ ConvertAttribute
    \/ ConvertFunctionCallName
    \/ FunctionCallReturn
    \/ RemoveBackedges
    \/ AddNodesToShapeRefiner
    \/ InferFunctionType
    \/ Convert
    \/ ConvertNode
    \/ ConvertNodeReturn
    \/ CreateOperation
    \/ AddBackedges
    \/ ConvertFunctionArgAndRets
    \/ ReturnModule

Spec == Init /\ [][Next]_vars

\* the conversion is one thread that runs until it returns: a step that can be
\* taken is taken
FairSpec == Spec /\ WF_vars(Next)

(***************************************************************************)
(* The offload executor.  Threads call the operations of the device        *)
(* context and of the device; every operation is cut at the places where   *)
(* it takes a mutex.  The device library (veo_call_async,                  *)
(* veo_call_wait_result, veo_alloc_mem, veo_read_mem, veo_write_mem) is an *)
(* oracle that may fail.                                                   *)
(***************************************************************************)
Copies == {"CopyCPUTensorToDevice", "CopyDeviceTensorToCPU"}

Operations == {"Compute", "Sync", "alloc_mem", "free_mem"} \cup Copies

\* where an operation starts: write_mem and read_mem call sync() first
Entry(op) ==
    CASE op = "Compute" -> "compute"
      [] op = "alloc_mem" -> "alloc"
      [] op = "free_mem" -> "free"
      [] OTHER -> "sync"

Go(t, rec) == thread' = [thread EXCEPT ![t] = rec]

\* a thread calls an operation: ReluOp::Operate calling Compute,
\* VEDevice::Sync, a tensor copy, VEMemAllocator::Alloc calling alloc_mem
Invoke(t) ==
    /\ thread[t].pc = "idle"
    /\ calls < MaxCalls
    /\ calls' = calls + 1
    /\ \E op \in Operations :
          Go(t, [IdleThread EXCEPT
                    !.op = op,
                    !.pc = Entry(op),
                    !.kernel = IF op = "Compute" THEN calls + 1 ELSE 0,
                    !.before = IF op \in Copies THEN Range(pushed) ELSE {}])
    /\ UNCHANGED <<otherVars, importerVars, stacks, currStack_, lock_stack_, lock_sync_, lock_veo_, device, pushed>>

\* VEOAsync::compute: mutex_lock guard(lock_stack_)
compute(t) ==
    /\ thread[t].pc = "compute"
    /\ lock_stack_ = 0
    /\ lock_stack_' = t
    /\ Go(t, [thread[t] EXCEPT !.pc = "push"])
    /\ UNCHANGED <<otherVars, importerVars, stacks, currStack_, lock_sync_, lock_veo_, device, pushed, calls>>

\* KernelStack::push and the return of compute, Compute and Operate: a
\* full stack is an error, which Operate records on the context
push(t) ==
    /\ thread[t].pc = "push"
    /\ lock_stack_' = 0
    /\ IF Len(stacks[currStack_]) >= StackKernels
       THEN /\ Go(t, [thread[t] EXCEPT !.pc = "idle", !.failed = TRUE,
                                       !.status = Internal, !.context = Internal])
            /\ UNCHANGED <<stacks, pushed>>
       ELSE /\ stacks' = [stacks EXCEPT ![currStack_] = Append(@, thread[t].kernel)]
            /\ pushed' = Append(pushed, thread[t].kernel)
            /\ Go(t, [thread[t] EXCEPT !.pc = "idle", !.status = OK])
    /\ UNCHANGED <<otherVars, importerVars, currStack_, lock_sync_, lock_veo_, device, calls>>

\* sync_ taking the stack without lock_sync_
sync_Unlocked(t) ==
    /\ thread[t].pc = "sync"
    /\ Go(t, [thread[t] EXCEPT !.pc = "lock_stack"])
    /\ UNCHANGED <<otherVars, importerVars, stacks, currStack_, lock_stack_, lock_sync_, lock_veo_, device, pushed, calls>>

\* sync_ called with lock_veo_ held: the guard of write_mem and read_mem
\* taken before sync()
sync_Guarded(t) ==
    /\ thread[t].pc = "sync"
    /\ lock_sync_ = 0
    /\ lock_sync_' = t
    /\ IF thread[t].op \in Copies
       THEN lock_veo_ = 0 /\ lock_veo_' = t
       ELSE UNCHANGED lock_veo_
    /\ Go(t, [thread[t] EXCEPT !.pc = "lock_stack"])
    /\ UNCHANGED <<otherVars, importerVars, stacks, currStack_, lock_stack_, device, pushed, calls>>

\* VEOAsync::sync_: mutex_lock guard_sync(lock_sync_)
sync_(t) ==
    /\ thread[t].pc = "sync"
    /\ lock_sync_ = 0
    /\ lock_sync_' = t
    /\ Go(t, [thread[t] EXCEPT !.pc = "lock_stack"])
    /\ UNCHANGED <<otherVars, importerVars, stacks, currStack_, lock_stack_, lock_veo_, device, pushed, calls>>

\* sync_: mutex_lock guard_stack(lock_stack_)
LockStack(t) ==
    /\ thread[t].pc = "lock_stack"
    /\ lock_stack_ = 0
    /\ lock_stack_' = t
    /\ Go(t, [thread[t] EXCEPT !.pc = "take"])
    /\ UNCHANGED <<otherVars, importerVars, stacks, currStack_, lock_sync_, lock_veo_, device, pushed, calls>>

\* sync() has returned s to the operation of rec: Sync returns it,
\* write_mem and read_mem drop it and go on to the transfer
Synced(rec, s) ==
    IF rec.op = "Sync"
    THEN [rec EXCEPT !.pc = "idle", !.stack = 0, !.n = 0, !.status = s, !.failed = @ \/ s # OK]
    ELSE [rec EXCEPT !.pc = "mem", !.stack = 0, !.n = 0, !.failed = @ \/ s # OK]

\* sync_ taking the stack and leaving it in place for compute
TakeStackShared(t) ==
    /\ thread[t].pc = "take"
    /\ lock_stack_' = 0
    /\ IF stacks[currStack_] = <<>>
       THEN /\ lock_sync_' = 0
            /\ Go(t, Synced(thread[t], OK))
       ELSE /\ Go(t, [thread[t] EXCEPT !.pc = "call", !.stack = currStack_,
                                       !.n = Len(stacks[currStack_])])
            /\ UNCHANGED lock_sync_
    /\ UNCHANGED <<otherVars, importerVars, stacks, currStack_, lock_veo_, device, pushed, calls>>

\* sync_ under lock_stack_: nothing queued, or the stack is taken with its
\* n kernels and a new KernelStack put in its place
TakeStack(t) ==
    /\ thread[t].pc = "take"
    /\ lock_stack_' = 0
    /\ IF stacks[currStack_] = <<>>
       THEN /\ lock_sync_' = 0
            /\ Go(t, Synced(thread[t], OK))
            /\ UNCHANGED <<stacks, currStack_>>
       ELSE /\ stacks' = Append(stacks, <<>>)
            /\ currStack_' = Len(stacks) + 1
            /\ Go(t, [thread[t] EXCEPT !.pc = "call", !.stack = currStack_,
                                       !.n = Len(stacks[currStack_])])
            /\ UNCHANGED lock_sync_
    /\ UNCHANGED <<otherVars, importerVars, lock_veo_, device, pushed, calls>>

\* sync_: mutex_lock guard_veo(lock_veo_) and VEO::call of the batch; the
\* request may be invalid, which sync_ does not look at
call(t) ==
    /\ thread[t].pc = "call"
    /\ lock_veo_ = 0
    /\ lock_veo_' = t
    /\ \E req \in BOOLEAN :
          /\ device' = Append(device, [kernels |-> stacks[thread[t].stack], req |-> req,
                                       waited |-> FALSE])
          /\ Go(t, [thread[t] EXCEPT !.pc = "wait"])
    /\ UNCHANGED <<otherVars, importerVars, stacks, currStack_, lock_stack_, lock_sync_, pushed, calls>>

\* what veo_call_wait_result can give for a request
WaitResults(req) == IF req THEN {"ok", "wait", "retval"} ELSE {"wait"}

\* VEO::wait: an error if the wait failed or the kernels returned nonzero
wait(res) == IF res = "ok" THEN OK ELSE Internal

\* sync_: VEO::wait, stack->clear(), return s
Wait(t) ==
    /\ thread[t].pc = "wait"
    /\ lock_veo_' = 0
    /\ lock_sync_' = 0
    /\ stacks' = [stacks EXCEPT ![thread[t].stack] = <<>>]
    /\ \E res \in WaitResults(device[Len(device)].req) :
          /\ device' = [device EXCEPT ![Len(device)].waited = res # "wait"]
          /\ Go(t, Synced(thread[t], wait(res)))
    /\ UNCHANGED <<otherVars, importerVars, currStack_, lock_stack_, pushed, calls>>

\* write_mem / read_mem after sync(): mutex_lock guard(lock_veo_)
LockVeo(t) ==
    /\ thread[t].pc = "mem"
    /\ lock_veo_ = 0
    /\ lock_veo_' = t
    /\ Go(t, [thread[t] EXCEPT !.pc = "transfer"])
    /\ UNCHANGED <<otherVars, importerVars, stacks, currStack_, lock_stack_, lock_sync_, device, pushed, calls>>

\* the transfer of write_mem or read_mem with its return code rc, and the
\* return of the copy: done(Status::OK())
Transfer(t, op) ==
    /\ thread[t].pc = "transfer"
    /\ thread[t].op = op
    /\ lock_veo_' = 0
    /\ \E rc \in {0, -1} :
          Go(t, [thread[t] EXCEPT !.pc = "idle", !.failed = @ \/ rc # 0, !.status = OK])
    /\ UNCHANGED <<otherVars, importerVars, stacks, currStack_, lock_stack_, lock_sync_, device, pushed, calls>>

\* VEDeviceContextImpl::CopyCPUTensorToDevice: VEO::write_mem
write_mem(t) == Transfer(t, "CopyCPUTensorToDevice")

\* VEDeviceContextImpl::CopyDeviceTensorToCPU: VEO::read_mem
read_mem(t) == Transfer(t, "CopyDeviceTensorToCPU")

\* VEOAsync::alloc_mem under lock_veo_: VEO::alloc_mem returns addr whatever
\* veo_alloc_mem returned; addr is not initialized when it failed
alloc_mem(t) ==
    /\ thread[t].pc = "alloc"
    /\ lock_veo_ = 0
    /\ \E r \in {0, -1} :
       \E addr \in (IF r = 0 THEN {ValidAddr} ELSE {NullAddr, GarbageAddr}) :
          Go(t, [thread[t] EXCEPT !.pc = "idle", !.failed = r # 0, !.addr = addr,
                                  !.status = OK])
    /\ UNCHANGED <<otherVars, importerVars, stacks, currStack_, lock_stack_, lock_sync_, lock_veo_, device, pushed,
                   calls>>

\* VEOAsync::free_mem under lock_veo_; VEMemAllocator::Free drops the result
free_mem(t) ==
    /\ thread[t].pc = "free"
    /\ lock_veo_ = 0
    /\ \E r \in {0, -1} :
          Go(t, [thread[t] EXCEPT !.pc = "idle", !.failed = r # 0, !.status = OK])
    /\ UNCHANGED <<otherVars, importerVars, stacks, currStack_, lock_stack_, lock_sync_, lock_veo_, device, pushed,
                   calls>>

\* no conversion is running
NoConversion ==
    /\ callerGraph = EmptyGraph
    /\ callerFlib = NoLibrary
    /\ given = [graph |-> EmptyGraph, flib |-> NoLibrary]
    /\ specs = DefaultSpecs
    /\ stack = <<>>
    /\ ret = NoStatus
    /\ returned = Frame("none", "")
    /\ table = <<>>
    /\ module = <<>>
    /\ ops = <<>>
    /\ result = NoResult

\* nothing but the executor runs
VEOInit == NoConversion /\ VEOAsync /\ Others

VEONext ==
    \E t \in Threads :
        \/ Invoke(t)
        \/ compute(t)
        \/ push(t)
        \/ sync_(t)
        \/ LockStack(t)
        \/ TakeStack(t)
        \/ call(t)
        \/ Wait(t)
        \/ LockVeo(t)
        \/ write_mem(t)
        \/ read_mem(t)
        \/ alloc_mem(t)
        \/ free_mem(t)

VEOSpec == VEOInit /\ [][VEONext]_vars

\* a step of thread t inside the operation it has called
Step(t) ==
    \/ compute(t) \/ push(t)
    \/ sync_(t) \/ LockStack(t) \/ TakeStack(t) \/ call(t) \/ Wait(t)
    \/ LockVeo(t) \/ write_mem(t) \/ read_mem(t)
    \/ alloc_mem(t) \/ free_mem(t)

\* calls made where progress is checked
FairCalls == 3

InvokeSome(t) == calls < FairCalls /\ Invoke(t)

VEOFairNext == \E t \in Threads : InvokeSome(t) \/ Step(t)

\* a thread that can go on does so in the end, and so does the device
\* library; the callers need not call
VEOFairSpec ==
    VEOInit /\ [][VEOFairNext]_vars /\ \A t \in Threads : WF_vars(Step(t))

(***************************************************************************)
(* KernelStack under any sequence of push and clear.                       *)
(***************************************************************************)
\* the lengths of the kernel arguments, the annotations
ArgLens == {0, 4, 7}

Annotations == {"", "relu"}

\* KernelStack::size
size == curr_

KernelStack_push ==
    /\ \E len \in ArgLens, annotation \in Annotations :
          LET sz == sizeof_uint64_t + sizeof_size_t + len
          IN IF curr_ + sz >= top_
             THEN /\ pushes' = <<[len |-> len, rc |-> 1]>>
                  /\ UNCHANGED <<num_kernels_, curr_, annotations_>>
             ELSE /\ num_kernels_' = num_kernels_ + 1
                  /\ curr_' = curr_ + sz
                  /\ annotations_' = Append(annotations_, annotation)
                  /\ pushes' = <<[len |-> len, rc |-> 0]>>
    /\ UNCHANGED <<importerVars, veoVars, factoryVars, objectNamesVars>>

clear ==
    /\ curr_' = sizeof_int32_t
    /\ num_kernels_' = 0
    /\ annotations_' = <<>>
    /\ pushes' = <<>>
    /\ UNCHANGED <<importerVars, veoVars, factoryVars, objectNamesVars>>

KernelStackInit ==
    NoConversion /\ VEOAsync /\ KernelStack /\ VEOFactory /\ ObjectNamesOf(NoObjectGraph)

KernelStackNext == KernelStack_push \/ clear

KernelStackSpec == KernelStackInit /\ [][KernelStackNext]_vars

(***************************************************************************)
(* VEOFactory::GetOrCreate, called by threads (VEDevice::Sync).            *)
(***************************************************************************)
Become(t, rec) == caller' = [caller EXCEPT ![t] = rec]

\* VEDevice::Sync: VEO* veo = NULL, then the call of GetOrCreate(&veo, 0)
Sync(t) ==
    /\ caller[t].pc = "idle"
    /\ Become(t, [IdleCaller EXCEPT !.pc = "lock"])
    /\ UNCHANGED <<importerVars, veoVars, kernelStackVars, objectNamesVars, lock_, veo_, instances>>

\* GetOrCreate: mutex_lock guard(lock_)
GetOrCreate(t) ==
    /\ caller[t].pc = "lock"
    /\ lock_ = 0
    /\ lock_' = t
    /\ Become(t, [caller[t] EXCEPT !.pc = "check"])
    /\ UNCHANGED <<importerVars, veoVars, kernelStackVars, objectNamesVars, veo_, instances>>

\* if (!veo_) veo_ = new VEOAsync: the new instance is not initialized yet
Create(t) ==
    /\ caller[t].pc = "check"
    /\ IF veo_ = NoVEO
       THEN /\ instances' = Append(instances, NoStatus)
            /\ veo_' = Len(instances) + 1
            /\ Become(t, [caller[t] EXCEPT !.pc = "init"])
       ELSE /\ Become(t, [caller[t] EXCEPT !.pc = "assign"])
            /\ UNCHANGED <<veo_, instances>>
    /\ UNCHANGED <<importerVars, veoVars, kernelStackVars, objectNamesVars, lock_>>

\* Status s = veo_->init(nodeid); if (!s.ok()) return s
init(t) ==
    /\ caller[t].pc = "init"
    /\ \E s \in {OK, Internal} :
          /\ instances' = [instances EXCEPT ![veo_] = s]
          /\ IF s # OK
             THEN lock_' = 0 /\ Become(t, [caller[t] EXCEPT !.pc = "idle", !.status = s])
             ELSE UNCHANGED lock_ /\ Become(t, [caller[t] EXCEPT !.pc = "assign"])
    /\ UNCHANGED <<importerVars, veoVars, kernelStackVars, objectNamesVars, veo_>>

\* *pveo = veo_; return Status::OK()
Assign(t) ==
    /\ caller[t].pc = "assign"
    /\ lock_' = 0
    /\ Become(t, [caller[t] EXCEPT !.pc = "idle", !.pveo = veo_, !.status = OK])
    /\ UNCHANGED <<importerVars, veoVars, kernelStackVars, objectNamesVars, veo_, instances>>

VEOFactoryInit ==
    NoConversion /\ VEOAsync /\ KernelStack /\ VEOFactory /\ ObjectNamesOf(NoObjectGraph)

VEOFactoryNext ==
    \E t \in Devices : Sync(t) \/ GetOrCreate(t) \/ Create(t) \/ init(t) \/ Assign(t)

VEOFactorySpec == VEOFactoryInit /\ [][VEOFactoryNext]_vars

(***************************************************************************)
(* ObjectNames::RecursivelyVisitObjectGraph.  An object graph gives each   *)
(* node its kind and its children as <<local_name, node_id>> in order; a   *)
(* child's local name is its position among the children.                  *)
(***************************************************************************)
MaxNodeId == 2

NodeIds == 0..MaxNodeId

\* the children of a node: any set of nodes, in ascending order
ChildLists ==
    {[k \in 1..Cardinality(S) |->
         [local_name |-> k,
          node_id |-> CHOOSE x \in S : Cardinality({y \in S : y < x}) = k - 1]]
        : S \in SUBSET NodeIds}

\* the root is a user object, the other nodes are variables
SavedObject(node_id, children) ==
    [kind |-> IF node_id = 0 THEN "kUserObject" ELSE "kVariable", children |-> children]

ObjectGraphs ==
    {[node_id \in NodeIds |-> SavedObject(node_id, children[node_id])]
        : children \in [NodeIds -> ChildLists]}

Named == {"kConstant", "kFunction", "kVariable"}

\* the start of RecursivelyVisitObjectGraph(node_id): the name is recorded
Visited(node_id) ==
    /\ visits' = visits + 1
    /\ visiting' = Append(visiting, [node_id |-> node_id, child |-> 1])
    /\ IF object_graph_[node_id].kind \in Named
       THEN object_names_' =
               Put(object_names_, node_id,
                   Append(IF node_id \in DOMAIN object_names_ THEN object_names_[node_id]
                          ELSE <<>>,
                          path_segments_'))
       ELSE UNCHANGED object_names_

\* the constructor calls RecursivelyVisitObjectGraph(0)
ObjectNames ==
    /\ visits = 0
    /\ object_graph_ # NoObjectGraph
    /\ Visited(0)
    /\ UNCHANGED <<importerVars, veoVars, kernelStackVars, factoryVars,
                   object_graph_, path_segments_, on_stack_nodes_>>

InVisit == visiting # <<>>

Activation == visiting[Len(visiting)]

ChildRef == object_graph_[Activation.node_id].children[Activation.child]

HasChild == InVisit /\ Activation.child <= Len(object_graph_[Activation.node_id].children)

\* the loop meets a child that on_stack_nodes_ holds: a backedge
SkipBackedge ==
    /\ HasChild
    /\ ChildRef.node_id \in on_stack_nodes_
    /\ visiting' = [visiting EXCEPT ![Len(visiting)].child = @ + 1]
    /\ UNCHANGED <<importerVars, veoVars, kernelStackVars, factoryVars,
                   object_graph_, path_segments_, on_stack_nodes_, object_names_, visits>>

\* the loop inserts the child, pushes its local name and visits it
RecursivelyVisitObjectGraph ==
    /\ HasChild
    /\ ChildRef.node_id \notin on_stack_nodes_
    /\ on_stack_nodes_' = on_stack_nodes_ \cup {ChildRef.node_id}
    /\ path_segments_' = Append(path_segments_, ChildRef.local_name)
    /\ Visited(ChildRef.node_id)
    /\ UNCHANGED <<importerVars, veoVars, kernelStackVars, factoryVars, object_graph_>>

\* the loop is over and the activation returns: its caller pops the local
\* name, erases the child and goes on with the next child
ReturnFromVisit ==
    /\ InVisit
    /\ ~HasChild
    /\ IF Len(visiting) = 1
       THEN /\ visiting' = <<>>
            /\ UNCHANGED <<path_segments_, on_stack_nodes_>>
       ELSE /\ visiting' = [SubSeq(visiting, 1, Len(visiting) - 1)
                               EXCEPT ![Len(visiting) - 1].child = @ + 1]
            /\ path_segments_' = SubSeq(path_segments_, 1, Len(path_segments_) - 1)
            /\ on_stack_nodes_' = on_stack_nodes_ \ {Activation.node_id}
    /\ UNCHANGED <<importerVars, veoVars, kernelStackVars, factoryVars,
                   object_graph_, object_names_, visits>>

ObjectNamesInit ==
    /\ NoConversion /\ VEOAsync /\ KernelStack /\ VEOFactory
    /\ \E g \in ObjectGraphs : ObjectNamesOf(g)

ObjectNamesNext ==
    ObjectNames \/ SkipBackedge \/ RecursivelyVisitObjectGraph \/ ReturnFromVisit

ObjectNamesSpec == ObjectNamesInit /\ [][ObjectNamesNext]_vars

\* the constructor is one thread that runs until it returns
ObjectNamesFairSpec == ObjectNamesSpec /\ WF_vars(ObjectNamesNext)

(***************************************************************************)
(* Properties.                                                             *)
(***************************************************************************)
\* a call of ConvertLibFunction for a name the table already holds
MemoizedCall == Running /\ Top.kind = "lib" /\ Top.pc = "entry" /\ Top.fn \in DOMAIN table

OneFunctionPerName ==
    \A i, j \in 1..Len(module) : module[i].fn = module[j].fn => i = j

\* C1: within one conversion at most one IR function is created per source
\* function name, and a ConvertLibFunction call for a name already in the
\* name-translation table returns OK, creates nothing and leaves the table
\* as it is.
ConvertsEachFunctionOnce ==
    /\ []OneFunctionPerName
    /\ [][MemoizedCall => /\ stack' = Callers
                          /\ ret' = OK
                          /\ module' = module
                          /\ ops' = ops
                          /\ table' = table]_vars

\* a second call for a function has returned, and the module holds the one
\* function made for it
MemoizedCallReturned ==
    /\ ret = OK
    /\ returned.kind = "lib"
    /\ returned.pc = "entry"
    /\ returned.fn \in DOMAIN table
    /\ Cardinality({i \in 1..Len(module) : module[i].fn = returned.fn}) = 1

\* the activation fr is inside ConvertNode, or about to enter it
InConvertNode(fr) ==
    \/ fr.pc = "node" /\ fr.i <= Len(fr.ordered_nodes) /\ IsOp(fr.ordered_nodes[fr.i])
    \/ fr.pc \in {"nodecall", "nodeattrs", "create"}

\* the node has an in-edge from a node that is not in node_values_, the
\* source being neither _SOURCE nor an argument reached by a control edge
UnregisteredInput(fr) ==
    \E e \in in_edges(fr.graph, fr.ordered_nodes[fr.i]) :
        /\ ~IsSource(e.src)
        /\ ~(IsArg(fr.graph, e.src) /\ IsControlEdge(e))
        /\ e.src \notin DOMAIN fr.node_values

\* the operations made for the current node of fr
OpsOfNode(fr) == {id \in 1..Len(ops) : ops[id].node = fr.ordered_nodes[fr.i]}

\* this step ends the ConvertNode call of the innermost activation, the
\* process going on
ConvertNodeEnds ==
    /\ ret' # Aborted
    /\ \/ Len(stack') < Len(stack)
       \/ Len(stack') = Len(stack) /\ stack'[Len(stack)].i # Top.i

ConvertNodeOfUnregistered == Running /\ InConvertNode(Top) /\ UnregisteredInput(Top)

LiveOp(fr, n) ==
    LET live == {id \in Range(module[fr.function].block) : ops[id].node = n}
    IN IF live = {} THEN 0 ELSE CHOOSE id \in live : TRUE

\* the NextIteration.Source operation of NextIteration node n
SourceOf(fr, n) == ops[fr.node_values[n]].operands[1].op

\* the back-edges of fr were restored without a read through a null pointer
\* or past the end of an operand list
NothingUndefined(fr) ==
    /\ \A e \in Range(fr.back_edges) :
          /\ e.src \in DOMAIN fr.node_values
          /\ e.dst \in DOMAIN fr.node_values
          /\ LiveOp(fr, e.dst) # 0
    /\ \A id \in Range(module[fr.function].block) : Garbage \notin Range(ops[id].operands)

AfterAddBackedges == Running /\ Top.pc = "argrets" /\ NothingUndefined(Top)

\* back-edge e of fr is operand k of the rebuilt destination, the operands
\* of the old destination around it, types and attributes as they were
RestoredInPlace(fr, e) ==
    LET old == ops[fr.node_values[e.dst]]
        new == ops[LiveOp(fr, e.dst)]
        k == e.dst_input
    IN /\ k >= 0
       /\ Len(new.operands) = Len(old.operands) + 1
       /\ k < Len(new.operands)
       /\ new.operands[k + 1] = Val(SourceOf(fr, e.src), 0)
       /\ \A j \in 1..Len(old.operands) :
             old.operands[j] = new.operands[IF j <= k THEN j ELSE j + 1]
       /\ new.types = old.types
       /\ new.attrs = old.attrs

\* C3: after Convert, every removed data back-edge with destination input k
\* is operand k of the rebuilt Merge operation, whose other operands are
\* those of the old operation in their order and whose result types and
\* attributes are the old ones.
BackEdgesRestoredInPlace ==
    AfterAddBackedges =>
        \A e \in Range(Top.back_edges) : e.dst_input >= 0 => RestoredInPlace(Top, e)

\* two removed back-edges leave different outputs of one node
DifferentOutputs(edges) ==
    \E e1, e2 \in edges : e1.src = e2.src /\ e1.src_output # e2.src_output

\* two removed back-edges leave the same output of one node
SharedOutput(edges) ==
    \E e1, e2 \in edges : e1 # e2 /\ e1.src = e2.src /\ e1.src_output = e2.src_output

\* this step is RemoveBackedges behind the clone, the process going on
RemoveBackedgesStep ==
    /\ Running
    /\ Top.pc = "prepare"
    /\ ConvertGraphDefToGraph(InputGraph(Top)) = OK
    /\ ret' # Aborted

RemoveBackedgesFails == stack' = Callers /\ ret' = FailedPrecondition

RemoveBackedgesSucceeds ==
    /\ Len(stack') = Len(stack)
    /\ stack'[Len(stack)].pc = "refine"
    /\ ret' = ret

Restored(fr, e) ==
    Val(SourceOf(fr, e.src), 0) \in Range(ops[LiveOp(fr, e.dst)].operands)

\* C5: when AddBackedges has returned OK, every back-edge RemoveBackedges
\* recorded is an operand of its destination operation, also when two
\* back-edges share a destination.
EveryBackEdgeRestored ==
    AfterAddBackedges => \A e \in Range(Top.back_edges) : Restored(Top, e)

\* the functions the definition of f refers to: by the type of a body node,
\* by a function-valued attribute or a list item of a body node, by gradient
References(flib, f) ==
    LET g == flib.fdef[f].graph
    IN {g.op[n] : n \in g.nodes}
       \cup UNION {{a.func : a \in {x \in g.attrs[n] : x.kind = "func"}} : n \in g.nodes}
       \cup UNION {UNION {{a.items[k].name : k \in 1..Len(a.items)} : a \in g.attrs[n]}
                      : n \in g.nodes}
       \cup {FindGradient(flib, f)}

\* f refers to itself, directly or through another function of the library
Cyclic(flib, f) ==
    \/ f \in References(flib, f)
    \/ \E g \in References(flib, f) \cap DOMAIN flib.fdef : f \in References(flib, g)

\* this step of ConvertLibFunction descends into the function
Descends ==
    /\ Running
    /\ Top.kind = "lib"
    /\ Top.pc = "entry"
    /\ Len(stack') = Len(stack)

\* no function is being converted twice at a time
NoNestedDescent ==
    \A i, j \in 1..Len(stack) :
        (/\ stack[i].kind = "lib" /\ stack[i].pc # "entry"
         /\ stack[j].kind = "lib" /\ stack[j].pc # "entry"
         /\ stack[i].fn = stack[j].fn) => i = j

\* C6: the conversion terminates for every library, cyclic ones included:
\* a name is in the name-translation table from the step that descends into
\* its function on, and no step descends into a function whose name is in
\* the table.
LibFunctionsTerminate ==
    /\ <>(result # NoResult)
    /\ []NoNestedDescent
    /\ [][Descends => Top.fn \notin DOMAIN table /\ Top.fn \in DOMAIN table']_vars
    /\ [][DOMAIN table \subseteq DOMAIN table']_vars

\* a library with a cycle has been converted
CyclicLibraryConverted ==
    /\ result.status = OK
    /\ \E f \in DOMAIN callerFlib.fdef :
          /\ Cyclic(callerFlib, f)
          /\ Cardinality({i \in 1..Len(result.module) : result.module[i].fn = f}) = 1

\* a call of ConvertLibFunction for a name the library does not define
UndefinedCall ==
    Running /\ Top.kind = "lib" /\ Top.pc = "entry" /\ ~Find(callerFlib, Top.fn)

Failing == Running /\ ret \notin {OK, NoStatus}

\* C8: an activation that leaves ConvertNode by returning leaves it with an
\* error and converts nothing more; every enclosing activation returns that
\* error without creating anything, and the caller gets the error and no
\* module.
FailurePropagates ==
    /\ [][(Running /\ InConvertNode(Top) /\ Len(stack') < Len(stack) /\ ret' # Aborted)
            => /\ stack' = Callers
               /\ ret' \notin {OK, NoStatus}
               /\ module' = module
               /\ ops' = ops]_vars
    /\ [][Failing => /\ stack' = Callers
                     /\ ret' = ret
                     /\ module' = module
                     /\ ops' = ops
                     /\ table' = table]_vars
    /\ [](result.status \notin {OK, NoStatus}
            => ~result.has_module /\ result.module = <<>>)

\* ConvertNode failed in a library function that was partly built, and the
\* caller got the error and no module
PartFunctionNotReturned ==
    /\ result.status \notin {OK, NoStatus, Aborted}
    /\ ~result.has_module
    /\ InConvertNode(returned)
    /\ Len(module) >= 2
    /\ module[Len(module)].fetch = <<>>
    /\ module[Len(module)].block # <<>>

\* C9: the caller's graph and function library are what the caller handed
\* in, under every configuration.
CallerObjectsUnchanged == callerGraph = given.graph /\ callerFlib = given.flib

\* the operand lists ConvertNode makes of the in-edges stored in this order
OperandsOf(stored) ==
    LET st == Operands(Top, StableSort(stored, EdgeLess),
                       [status |-> OK, operands |-> <<>>, control_operands |-> <<>>,
                        ub |-> FALSE, seen |-> <<>>])
    IN <<st.status, st.operands, st.control_operands>>

\* C10: the operand lists of a node, control operands included, are the
\* same for every order in which the node's in-edges are stored.
OperandsIndependentOfStorage ==
    (Running /\ (AtNode \/ Top.pc = "nodecall") /\ IsOp(Node))
        => \A s1, s2 \in Orders(in_edges(Top.graph, Node)) : OperandsOf(s1) = OperandsOf(s2)

\* the nodes a conversion declares: GetInputOutputNodes collects them
DeclaredNodes(sp) == Range(sp.inputs) \cup output_arrays(sp)

\* the graph of the activation fr as the pruning finds it: the fed nodes are
\* placeholders without in-edges (the back-edges were removed before)
GraphToPrune(fr) ==
    LET first == {n \in Range(fr.ordered_nodes) : IsOp(n)}
        fed == first \cap Range(specs_(fr).inputs)
    IN ReplaceWithPlaceholderNode(fr.graph, {n \in fed : fr.graph.op[n] \notin NotReplaced})

\* the nodes that can be reached from the nodes of `seen' along edges of g
RECURSIVE ReachableFrom(_, _)
ReachableFrom(g, seen) ==
    Once({n \in g.nodes \ seen : \E e \in g.in[n] : e.src \in seen}, LAMBDA more :
        IF more = {} THEN seen ELSE ReachableFrom(g, seen \cup more))

OpNodes(g) == {n \in g.nodes : IsOp(n)}

\* this step is AddNodesToShapeRefiner pruning the graph and going on
Pruned ==
    /\ Running
    /\ Top.pc = "refine"
    /\ specs_(Top).prune_unused_nodes
    /\ Len(stack') = Len(stack)
    /\ Top'.pc = "infer"

\* the operations of the function of the activation fr are made of nodes of
\* its graph
BodyOfGraph(fr) ==
    fr.function # 0 =>
        \A k \in 1..Len(module[fr.function].block) :
            ops[module[fr.function].block[k]].node \in fr.graph.nodes

AbsentName ==
    /\ ~(DeclaredNodes(specs) \subseteq given.graph.nodes)
    /\ BackEdges(given.graph) = {}

\* C12: a conversion with a declared input or output name that names no
\* node fails and returns no module, and the error class is the same with
\* and without pruning: the FailedPrecondition of GetInputOutputNodes.
AbsentNameOneErrorClass ==
    (AbsentName /\ result.status # NoStatus)
        => /\ ~result.has_module
           /\ result.status = FailedPrecondition

\* the attributes ConvertNode has converted for its node: all of them are
\* converted when the operation is about to be created
AttributesConverted == Running /\ Top.pc = "create"

\* the converted attributes that come from the node attribute named base
FromAttr(fr, base) == SelectSeq(fr.state.attributes, LAMBDA x : x.name[1] = base)

\* the function of the module that name was translated to
TranslatedFunction(f) ==
    /\ f \in DOMAIN table
    /\ lookupSymbol(module, table[f]) # 0
    /\ module[lookupSymbol(module, table[f])].fn = f

EdgesProcessed == Running /\ Top.pc \in {"nodeattrs", "create"}

DataEdgesOf(edges) == SelectSeq(edges, LAMBDA e : ~IsControlEdge(e))

\* the data operand list follows the data edges as they were processed
OperandsFollow(fr) ==
    LET data == DataEdgesOf(fr.in_edges)
    IN /\ Len(fr.state.operands) = Len(data)
       /\ \A k \in 1..Len(data) :
             fr.state.operands[k] \in {Garbage, Val(fr.node_values[data[k].src], data[k].src_output)}

AscendingData(edges) ==
    \A j, k \in 1..Len(edges) :
        (j < k /\ ~IsControlEdge(edges[j]) /\ ~IsControlEdge(edges[k]))
            => edges[j].dst_input < edges[k].dst_input

\* C17 as stated: the in-edges are processed with every control edge before
\* every data edge, the data edges in ascending destination input.
ControlEdgesFirst ==
    EdgesProcessed =>
        /\ \A j, k \in 1..Len(Top.in_edges) :
              (IsControlEdge(Top.in_edges[j]) /\ ~IsControlEdge(Top.in_edges[k])) => j < k
        /\ AscendingData(Top.in_edges)
        /\ OperandsFollow(Top)

\* C17: the in-edges are processed with every data edge before every
\* control edge, the data edges in ascending destination input, however the
\* graph stores them; the data operands are in ascending destination input.
DataEdgesFirst ==
    EdgesProcessed =>
        /\ Range(Top.in_edges) = in_edges(Top.graph, Top.state.node)
        /\ \A j, k \in 1..Len(Top.in_edges) :
              (~IsControlEdge(Top.in_edges[j]) /\ IsControlEdge(Top.in_edges[k])) => j < k
        /\ AscendingData(Top.in_edges)
        /\ OperandsFollow(Top)

\* a node with two data edges and a control edge has its operands
TwoDataOneControl ==
    /\ EdgesProcessed
    /\ Len(Top.state.operands) = 2
    /\ Top.state.control_operands # <<>>
    /\ \E k \in 1..Len(Top.in_edges) : IsControlEdge(Top.in_edges[k])

\* the rounds of a run in which no output changed
QuietRounds(run) ==
    {r \in 1..kMaxIterationCount : same_inferred_shape(run.shapes[r + 1], run.shapes[r])}

\* the number of rounds the loop is to make of a run that has no error
RoundsOf(run) ==
    IF QuietRounds(run) = {} THEN kMaxIterationCount
    ELSE CHOOSE r \in QuietRounds(run) : \A q \in QuietRounds(run) : r <= q

\* every run of the loop ends within the cap, after the first round without
\* a change, and fails only if the shape refiner does
ShapeLoopCapped ==
    \A run \in ShapeRuns :
        LET loop == ShapeFixpoint(run)
        IN /\ loop.i <= kMaxIterationCount
           /\ loop.status # OK => run.error \in 1..loop.i + 1
           /\ (run.error = 0) => (loop.status = OK /\ loop.i = RoundsOf(run))

\* shapes of unknown rank are the same, and so are shapes of one rank whose
\* dimensions are unknown
UnknownIsSame ==
    \A s0, s1 \in Shapes :
        LET unranked == ~s0.known /\ ~s1.known
            undimensioned ==
                /\ s0.known /\ s1.known /\ Len(s0.dims) = Len(s1.dims)
                /\ \A k \in 1..Len(s0.dims) : s0.dims[k] < 0 /\ s1.dims[k] < 0
        IN (unranked \/ undimensioned) => same_inferred_shape(s0, s1)

\* this step is AddNodesToShapeRefiner going on after its loop
Refined == Running /\ Top.pc = "refine" /\ Len(stack') = Len(stack)

\* C18: the shape loop of AddNodesToShapeRefiner ends after at most
\* kMaxIterationCount rounds, after the first round in which no output
\* changed under same_inferred_shape, and the conversion goes on when the
\* cap is reached without convergence.
ShapeLoopTerminates ==
    /\ [](ShapeLoopCapped /\ UnknownIsSame)
    /\ [][Refined =>
            /\ Top'.pc = "infer"
            /\ Len(Top'.changed) \in 1..kMaxIterationCount
            /\ \A k \in 1..Len(Top'.changed) - 1 : Top'.changed[k]
            /\ Top'.changed[Len(Top'.changed)] => Len(Top'.changed) = kMaxIterationCount]_vars

\* the loop has reached the cap without convergence and the conversion
\* goes on
CapReached ==
    /\ Running
    /\ Top.pc = "infer"
    /\ Len(Top.changed) = kMaxIterationCount
    /\ Top.changed[kMaxIterationCount]

\* ConvertNode is converting the attributes of its node, or has converted
\* them
InNodeAttributes == Running /\ Top.pc \in {"nodeattrs", "create"}

\* the node attributes in the order ConvertNode has converted and is still
\* to convert them, by name (an error return converts nothing)
ConversionOrder(fr) ==
    LET todo == SelectSeq(fr.work, LAMBDA item : item.t # "fail")
    IN [k \in 1..Len(fr.state.attributes) |-> fr.state.attributes[k].name[1]]
       \o [k \in 1..Len(todo) |-> todo[k].name[1]]

FuncAttrNames(fr) == {a.name : a \in {x \in fr.graph.attrs[fr.state.node] : x.kind = "func"}}

\* no function-valued attribute before another attribute, and the
\* function-valued ones by ascending name
FuncAttrsLast(fr) ==
    LET order == ConversionOrder(fr)
    IN \A j, k \in 1..Len(order) :
          (j < k /\ order[j] \in FuncAttrNames(fr))
              => order[k] \in FuncAttrNames(fr) /\ AttrRank(order[j]) <= AttrRank(order[k])

\* the attributes of the operation this step creates
CreatedAttributes ==
    LET made == ops'[Len(ops')]
    IN IF made.inner = NoInner THEN made.attrs ELSE made.inner.attrs

\* name and device come right after the converted attributes
NameAndDeviceFollow ==
    (Running /\ Top.pc = "create" /\ Len(ops') > Len(ops))
        => LET n == Len(Top.state.attributes)
           IN /\ Len(CreatedAttributes) >= n + 2
              /\ SubSeq(CreatedAttributes, 1, n) = Top.state.attributes
              /\ CreatedAttributes[n + 1] = StringAttr("name")
              /\ CreatedAttributes[n + 2] = StringAttr("device")

\* the functions of two function-valued attributes are in the module in
\* the order of the attributes
ModuleInAttrOrder(fr) ==
    \A a, b \in {x \in fr.graph.attrs[fr.state.node] : x.kind = "func"} :
        (/\ AttrRank(a.name) < AttrRank(b.name)
         /\ a.func # b.func
         /\ TranslatedFunction(a.func)
         /\ TranslatedFunction(b.func))
            => lookupSymbol(module, table[a.func]) < lookupSymbol(module, table[b.func])

\* C19 as stated: function-valued attributes are converted after all other
\* attributes, by ascending name; the functions they reference are added
\* to the module in that order; name and device follow.
FunctionsAddedInAttrOrder ==
    /\ [](InNodeAttributes => FuncAttrsLast(Top))
    /\ []((Running /\ Top.pc = "create") => ModuleInAttrOrder(Top))
    /\ [][NameAndDeviceFollow]_vars

\* C19: function-valued attributes are converted after all other
\* attributes, by ascending name, whatever the order of the attribute map:
\* ConvertLibFunction is called for their functions in that order, their
\* expanded attributes follow the other attributes in that order, and name
\* and device follow them.
FuncAttrsConvertedLast ==
    /\ [](InNodeAttributes => FuncAttrsLast(Top))
    /\ [][NameAndDeviceFollow]_vars

\* a node with two function-valued attributes and another attribute has
\* its attributes converted
TwoFuncAttrsConverted ==
    /\ Running
    /\ Top.pc = "create"
    /\ Cardinality(FuncAttrNames(Top)) = 2
    /\ Cardinality(Top.graph.attrs[Top.state.node]) > 2
    /\ Len(Top.state.attributes) > 3

\* this step creates the operations of a NextIteration node
CreatesNextIteration ==
    /\ Running
    /\ Top.pc = "create"
    /\ IsNextIteration(Top.graph, Top.state.node)
    /\ Len(stack') = Len(stack)

\* the operations of kind `name' that the block of function k holds for node
OpsFor(k, node, name) ==
    {j \in 1..Len(module[k].block) :
        /\ ops[module[k].block[j]].node = node
        /\ ops[module[k].block[j]].name = Executor(name)}

\* C20: for a NextIteration node ConvertNode creates one source and one
\* sink: the source becomes the first operation of the block, the sink
\* takes the source's token and then the data and control operands of the
\* node, and the registry records the sink.
NextIterationPair ==
    /\ [][CreatesNextIteration =>
            LET source == Len(ops) + 1
                sink == Len(ops) + 2
                block == module[Top.function].block
            IN /\ Len(ops') = Len(ops) + 2
               /\ ops'[source].name = Executor("NextIteration.Source")
               /\ ops'[sink].name = Executor("NextIteration.Sink")
               /\ module'[Top.function].block = <<source>> \o block \o <<sink>>
               /\ ops'[sink].operands
                    = <<Val(source, 1)>> \o Top.state.operands \o Top.state.control_operands
               /\ ops'[source].types[2] = TokenType
               /\ Top'.node_values[Top.state.node] = sink]_vars
    /\ [](\A k \in 1..Len(module) : \A j \in 1..Len(module[k].block) :
            LET node == ops[module[k].block[j]].node
            IN /\ Cardinality(OpsFor(k, node, "NextIteration.Source")) <= 1
               /\ Cardinality(OpsFor(k, node, "NextIteration.Source"))
                    = Cardinality(OpsFor(k, node, "NextIteration.Sink")))

\* the pair of a NextIteration node stands in a block that held an
\* operation before: the source first, the sink with the token and the data
\* operand recorded for the node
NextIterationCreated ==
    /\ Running
    /\ Top.pc = "node"
    /\ \E node \in DOMAIN Top.node_values :
          /\ IsNextIteration(Top.graph, node)
          /\ ops[Top.node_values[node]].name = Executor("NextIteration.Sink")
          /\ Len(ops[Top.node_values[node]].operands) >= 2
          /\ Len(module[Top.function].block) >= 3
          /\ ops[module[Top.function].block[1]].name = Executor("NextIteration.Source")

\* the kernels handed to the device, batch after batch
Dispatched == Concat([k \in 1..Len(device) |-> device[k].kernels])

\* the position of kernel x in the sequence s, 0 if it is not there
Position(s, x) == IF \E k \in 1..Len(s) : s[k] = x THEN CHOOSE k \in 1..Len(s) : s[k] = x ELSE 0

\* the batch that holds kernel x, 0 if none does
BatchOf(x) ==
    IF \E k \in 1..Len(device) : x \in Range(device[k].kernels)
    THEN CHOOSE k \in 1..Len(device) : x \in Range(device[k].kernels)
    ELSE 0

\* C14: kernels reach the device in the order their compute calls took the
\* queue lock: a kernel that is dispatched has every kernel queued before
\* it in an earlier batch, or before it in its own batch.
KernelsFIFO ==
    \A i, j \in 1..Len(pushed) :
        (i < j /\ BatchOf(pushed[j]) # 0)
            => /\ BatchOf(pushed[i]) # 0
               /\ BatchOf(pushed[i]) <= BatchOf(pushed[j])
               /\ Position(Dispatched, pushed[i]) < Position(Dispatched, pushed[j])

\* a batch of two kernels was dispatched, and a second batch after it,
\* while the two threads were calling compute and sync
TwoBatches ==
    /\ Len(device) = 2
    /\ Len(device[1].kernels) = 2
    /\ device[2].kernels # <<>>
    /\ \E t \in Threads : thread[t].op = "Compute" /\ thread[t].pc = "idle"
    /\ \E t \in Threads : thread[t].op \in {"Sync"} \cup Copies

\* the kernels that were dispatched to the device and waited for
Waited == UNION {Range(device[k].kernels) : k \in {j \in 1..Len(device) : device[j].req /\ device[j].waited}}

\* thread t is at the transfer of write_mem or read_mem
AtTransfer(t) == thread[t].pc = "transfer"

\* C15: when read_mem or write_mem makes its transfer, every kernel whose
\* compute call returned before the read_mem or write_mem call started was
\* dispatched to the device and waited for.
DrainedBeforeTransfer ==
    \A t \in Threads : AtTransfer(t) => thread[t].before \subseteq Waited

\* thread t has returned from an operation
Returned(t) == thread[t].pc = "idle" /\ thread[t].op # "none"

\* C16: an operation in which an allocation, a dispatch, a wait, a kernel,
\* a transfer or the drain before a transfer failed does not report
\* success (alloc_mem: does not return an address to use), and a failed
\* Compute is recorded on the context of the op.
FailureReported ==
    \A t \in Threads :
        (Returned(t) /\ thread[t].failed)
            => IF thread[t].op = "alloc_mem" THEN thread[t].addr = NullAddr
               ELSE /\ thread[t].status # OK
                    /\ thread[t].op = "Compute" => thread[t].context = thread[t].status

(***************************************************************************)
(* ConvertFunctionArgAndRets, one successful call as a step.               *)
(***************************************************************************)
\* ConvertFunctionArgAndRets returns OK in this step
ArgsAndRetsDone == Running /\ Top.pc = "argrets" /\ stack' = Callers /\ ret' = OK

\* the block argument of argument i (from 1)
BlockArgument(i) == Val(0, i - 1)

\* the island registered for a node of the innermost activation
IslandOf(node) == Top.node_values[node]

\* value v after every use of an _Arg island's result was forwarded to its
\* block argument
Forwarded(v) ==
    IF \E j \in 1..Len(Top.arg_nodes) :
          /\ IsArg(Top.graph, Top.arg_nodes[j].node)
          /\ v = Val(IslandOf(Top.arg_nodes[j].node), 0)
    THEN BlockArgument(CHOOSE j \in 1..Len(Top.arg_nodes) :
                           /\ IsArg(Top.graph, Top.arg_nodes[j].node)
                           /\ v = Val(IslandOf(Top.arg_nodes[j].node), 0))
    ELSE v

ForwardedAll(vs) == [k \in 1..Len(vs) |-> Forwarded(vs[k])]

\* the values the operations that are left use
UsesOf(os) ==
    UNION {Range(os[k].operands) \cup Range(os[k].inner.operands)
              : k \in {j \in 1..Len(os) : ~os[j].erased}}

\* argument i is wired as ConvertFunctionArgAndRets documents it
ArgumentWired(i) ==
    LET node == Top.arg_nodes[i].node
        island == IslandOf(node)
        old == ops[island].inner
        new == ops'[island].inner
    IN /\ node \in DOMAIN Top.node_values
       /\ IF IsArg(Top.graph, node)
          THEN /\ ops'[island].erased
               /\ island \notin Range(module'[Top.function].block)
               /\ Val(island, 0) \notin UsesOf(ops')
               /\ \A k \in 1..Len(ops) :
                     /\ ops'[k].operands = ForwardedAll(ops[k].operands)
                     /\ SubSeq(ops'[k].inner.operands, 1, Len(ops[k].inner.operands))
                           = ForwardedAll(ops[k].inner.operands)
          ELSE /\ ~ops'[island].erased
               /\ island \in Range(module'[Top.function].block)
               /\ new.name = [old.name EXCEPT !.suffix = ".input"]
               /\ new.attrs = old.attrs
               /\ new.types = old.types
               /\ new.operands = ForwardedAll(old.operands) \o <<BlockArgument(i)>>

ReturnedValue(k) ==
    LET ret_node == Top.ret_nodes[k]
        inst == IslandOf(ret_node.node)
    IN IF IsRetval(Top.graph, ret_node.node) THEN ops'[inst].inner.operands[1]
       ELSE Val(inst, ret_node.index)

\* the control token that control return k contributes to the fetch
ControlToken(k) ==
    LET inst == IslandOf(Top.control_ret_nodes[k])
    IN Val(inst, Len(ops[inst].types) - 1)

\* a return wrapper whose operands are not exactly one
BadReturnWrapper ==
    \E k \in 1..Len(Top.ret_nodes) :
        /\ IsRetval(Top.graph, Top.ret_nodes[k].node)
        /\ Top.ret_nodes[k].node \in DOMAIN Top.node_values
        /\ Len(ops[IslandOf(Top.ret_nodes[k].node)].inner.operands) # 1

\* C22: the fetch of a call of ConvertFunctionArgAndRets that returns OK
\* has one operand per declared return in declaration order (the single
\* operand of a _Retval wrapper, whose island is erased; the indexed result
\* of the registered operation otherwise), then one control token, the last
\* result of the registered operation, per control return in declaration
\* order; the function returns the results of the graph operation, one per
\* declared return; the call fails with Unimplemented exactly if a return
\* wrapper does not have one operand.
FetchInDeclarationOrder ==
    [][/\ ArgsAndRetsDone =>
            LET f == module'[Top.function]
                nrets == Len(Top.ret_nodes)
            IN /\ Len(f.fetch) = nrets + Len(Top.control_ret_nodes)
               /\ \A k \in 1..nrets :
                     /\ f.fetch[k] = ReturnedValue(k)
                     /\ IsRetval(Top.graph, Top.ret_nodes[k].node)
                           => /\ ops'[IslandOf(Top.ret_nodes[k].node)].erased
                              /\ IslandOf(Top.ret_nodes[k].node) \notin Range(f.block)
                              /\ Len(ops'[IslandOf(Top.ret_nodes[k].node)].inner.operands) = 1
               /\ \A k \in 1..Len(Top.control_ret_nodes) :
                     /\ f.fetch[nrets + k] = ControlToken(k)
                     /\ TypeOfValue(ControlToken(k)) = ControlType
               /\ f.results = [k \in 1..nrets |-> k - 1]
       /\ (Running /\ Top.pc = "argrets" /\ stack' = Callers /\ ret' # Aborted)
            => (ret' = Unimplemented <=> BadReturnWrapper)]_vars

\* a module with a function whose fetch has two returned values followed by
\* two control tokens
TwoReturnsTwoControlReturns ==
    /\ result.has_module
    /\ \E f \in 1..Len(result.module) :
          LET fetch == result.module[f].fetch
          IN /\ Len(fetch) = 4
             /\ Len(result.module[f].results) = 2
             /\ TypeOfValue(fetch[1]) # ControlType
             /\ TypeOfValue(fetch[2]) # ControlType
             /\ TypeOfValue(fetch[3]) = ControlType
             /\ TypeOfValue(fetch[4]) = ControlType
             /\ fetch[3] # fetch[4]

(***************************************************************************)
(* The registry node_values_ and the block after Convert.                  *)
(***************************************************************************)
\* Convert is about to call AddBackedges
AtAddBackedges == Running /\ Top.pc = "node" /\ Top.i > Len(Top.ordered_nodes)

\* Convert is about to call ConvertFunctionArgAndRets
AtArgsAndRets == Running /\ Top.pc = "argrets"

\* the loops of AddBackedges from the present state, in the order keys
BackedgesAdded(keys) ==
    AddBackedgesLoop(Top, keys, [ops |-> ops, block |-> module[Top.function].block,
                                 status |-> OK, ub |-> FALSE, stale |-> FALSE])

\* the loops of ConvertFunctionArgAndRets from the present state
ArgsAndRetsWired ==
    LET done == WireRets(Top, 1,
                   WireArgs(Top, 1,
                      [ops |-> ops, block |-> module[Top.function].block,
                       status |-> OK, ub |-> FALSE, stale |-> FALSE,
                       inst_to_return |-> <<>>]))
    IN IF done.status # OK THEN done ELSE WireControlRets(Top, 1, done)

\* C26: neither AddBackedges nor ConvertFunctionArgAndRets uses an entry
\* of node_values_ that points to an erased operation.
RegistryEntriesLive ==
    /\ AtAddBackedges =>
          \A keys \in Orders(DOMAIN Top.back_edge_dst_inputs) : ~BackedgesAdded(keys).stale
    /\ AtArgsAndRets => ~ArgsAndRetsWired.stale

\* the values an operation of a block may use at position p of function f:
\* the block arguments and the results of the operations before it
Defined(f, p) ==
    {Val(0, i - 1) : i \in 1..Len(result.module[f].args)}
    \cup UNION {{Val(result.module[f].block[q], i - 1)
                    : i \in 1..Len(ops[result.module[f].block[q]].types)}
                : q \in {j \in 1..(p - 1) : ~ops[result.module[f].block[j]].erased}}

\* the values the operation at position p of function f uses
Used(f, p) ==
    LET op == ops[result.module[f].block[p]]
    IN Range(op.operands) \cup Range(op.inner.operands)

\* C27: in the module that a successful conversion returns, every operand
\* of every operation of a graph block, the fetch included, is a block
\* argument of the function or a result of an operation that stands
\* earlier in the block.
DefBeforeUse ==
    result.has_module =>
        \A f \in 1..Len(result.module) :
            /\ \A p \in 1..Len(result.module[f].block) : Used(f, p) \subseteq Defined(f, p)
            /\ Range(result.module[f].fetch)
                  \subseteq Defined(f, Len(result.module[f].block) + 1)

(***************************************************************************)
(* ConvertLibFunction and the functions of the module.                     *)
(***************************************************************************)
\* ConvertLibFunction(Top.fn) returns OK in this step
LibFunctionConverted == Running /\ Top.kind = "lib" /\ stack' = Callers /\ ret' = OK

\* C25: when ConvertLibFunction returns OK for a function name, the module
\* holds a function whose name is the entry of tf_name_to_mlir_name_ for
\* that name, so the lookupSymbol that follows does not yield null.
ConvertedFunctionInModule ==
    [][LibFunctionConverted =>
          /\ Top.fn \in DOMAIN table'
          /\ lookupSymbol(module', table'[Top.fn]) # 0]_vars


(***************************************************************************)
(* C23: in VEOAsync::sync_, from the swap of currStack_ to stack->clear()  *)
(* the syncing thread is the only holder of the stack it took: the stack   *)
(* is not the one compute pushes to, no other thread holds it, it still    *)
(* has the kernels counted at the swap, and the batch handed to the device *)
(* is exactly these kernels.                                               *)
(***************************************************************************)
Holding(t) == thread[t].pc \in {"call", "wait"}

OnlyHolderOfTheStack ==
    \A t \in Threads :
        Holding(t)
            => /\ thread[t].stack # currStack_
               /\ \A u \in Threads \ {t} : thread[u].stack # thread[t].stack
               /\ \A u \in Threads \ {t} : ~Holding(u)
               /\ Len(stacks[thread[t].stack]) = thread[t].n
               /\ thread[t].n > 0
               /\ thread[t].pc = "wait"
                     => device[Len(device)].kernels = stacks[thread[t].stack]

\* while a batch of two kernels is at the device, compute has pushed a
\* kernel to the replacement stack
PushedDuringSync ==
    \E t \in Threads :
        /\ thread[t].pc = "wait"
        /\ thread[t].n = 2
        /\ stacks[currStack_] # <<>>


(***************************************************************************)
(* C30: KernelStack never writes outside its buffer: size() is at most     *)
(* buf_size_ in every state, and a push that would take it beyond          *)
(* buf_size_ returns nonzero and leaves num_kernels_, the write position   *)
(* and the annotations as they were.                                       *)
(***************************************************************************)
WouldExceed(len) == curr_ + sizeof_uint64_t + sizeof_size_t + len > buf_size_

PushStaysInBuffer ==
    /\ [](size <= buf_size_)
    /\ [][(pushes' # <<>> /\ WouldExceed(pushes'[1].len))
            => /\ pushes'[1].rc # 0
               /\ UNCHANGED <<num_kernels_, curr_, annotations_>>]_vars


(***************************************************************************)
(* C28: VEOFactory::GetOrCreate returns OK with a handle only if the       *)
(* instance behind the handle was initialized successfully, also in calls  *)
(* after one whose init failed, and at most one VEO instance is ever       *)
(* created.                                                                *)
(***************************************************************************)
HandleIsInitialized ==
    /\ \A t \in Devices :
           caller[t].status = OK
               => /\ caller[t].pveo # NoVEO
                  /\ instances[caller[t].pveo] = OK
    /\ Len(instances) <= 1


(***************************************************************************)
(* C24: in ObjectNames::RecursivelyVisitObjectGraph no node is visited     *)
(* while it is already on the DFS stack, the root 0 included;              *)
(* on_stack_nodes_ is always the set of the node ids on the DFS stack,     *)
(* and it is empty when the traversal has returned.                        *)
(***************************************************************************)
OnDFSStack == {visiting[i].node_id : i \in DOMAIN visiting}

Traversed == visits > 0 /\ visiting = <<>>

OnStackNodesAreTheDFSStack ==
    /\ \A i, j \in DOMAIN visiting : i # j => visiting[i].node_id # visiting[j].node_id
    /\ on_stack_nodes_ = OnDFSStack
    /\ Traversed => on_stack_nodes_ = {}


(***************************************************************************)
(* C29: compute, sync, read_mem, write_mem, alloc_mem and free_mem of      *)
(* VEOAsync are free of deadlock.  The mutexes are taken in one order,     *)
(* lock_sync_ before lock_stack_ before lock_veo_, so no thread waits for  *)
(* a mutex in a cycle of waiting threads, and every call returns in the    *)
(* end, the device library returning from each of its calls.               *)
(***************************************************************************)
Mutexes == <<"lock_sync_", "lock_stack_", "lock_veo_">>

Holder(m) ==
    CASE m = "lock_sync_" -> lock_sync_
      [] m = "lock_stack_" -> lock_stack_
      [] m = "lock_veo_" -> lock_veo_

\* the mutex thread t is about to take, if any
Wanted(t) ==
    CASE thread[t].pc = "sync" -> {"lock_sync_"}
      [] thread[t].pc \in {"compute", "lock_stack"} -> {"lock_stack_"}
      [] thread[t].pc \in {"call", "mem", "alloc", "free"} -> {"lock_veo_"}
      [] OTHER -> {}

\* the thread that t waits for, 0 if t does not wait
WaitsFor(t) == IF Wanted(t) = {} THEN 0 ELSE Holder(CHOOSE m \in Wanted(t) : TRUE)

RECURSIVE Follow(_, _)
Follow(t, steps) == IF t = 0 \/ steps = 0 THEN t ELSE Follow(WaitsFor(t), steps - 1)

NoLockCycle == \A t \in Threads : Follow(t, Cardinality(Threads)) = 0

LockOrder ==
    \A t \in Threads : \A i, j \in DOMAIN Mutexes :
        (Holder(Mutexes[i]) = t /\ Mutexes[j] \in Wanted(t)) => i < j

DeadlockFree ==
    /\ [](NoLockCycle /\ LockOrder)
    /\ \A t \in Threads : (thread[t].pc # "idle") ~> (thread[t].pc = "idle")

\* a sync holds lock_sync_ and waits for lock_veo_, which a copy holds,
\* while a compute waits for lock_stack_
ThreadsWaiting ==
    \E t, u \in Threads :
        /\ thread[t].pc = "call"
        /\ WaitsFor(t) = u
        /\ thread[u].pc = "transfer"

====
